---- MODULE Spec2Model ----
(***************************************************************************)
(* A model of integrating4Fears' time-matching script, src/matchtime.py:   *)
(* the batch loop of main() over the capture files of QTM_FOLDER and, for  *)
(* each file, process_single_qtm (header detection, column insertion,      *)
(* anchor lookup, frame-time reconstruction, nearest-frame matching,       *)
(* save).                                                                  *)
(* After it, a model of the Start Trial button of the recorder,            *)
(* src/qtmbeeprealbuttons_alltimestamped.py.                               *)
(*                                                                         *)
(* Text is a sequence of one-character strings, so that trimming, case     *)
(* folding, substring search and the regular expressions of the script are *)
(* computed character by character.  Instants and durations are integers   *)
(* in ticks of 100 microseconds (TicksPerMs ticks per millisecond).        *)
(***************************************************************************)
EXTENDS Integers, Sequences, FiniteSets, TLC

(***************************************************************************)
(* Text                                                                    *)
(***************************************************************************)
UpperChars == <<"A","B","C","D","E","F","G","H","I","J","K","L","M",
                "N","O","P","Q","R","S","T","U","V","W","X","Y","Z">>
LowerChars == <<"a","b","c","d","e","f","g","h","i","j","k","l","m",
                "n","o","p","q","r","s","t","u","v","w","x","y","z">>
DigitChars == <<"0","1","2","3","4","5","6","7","8","9">>

\* The characters of the model in code-point order (what sorted() compares).
CodeOrder == <<" ", "#", "$", ",", "-", ".">> \o DigitChars \o <<":">>
             \o UpperChars \o <<"_">> \o LowerChars \o <<"|", "~">>

Ord(c) == CHOOSE i \in 1..Len(CodeOrder) : CodeOrder[i] = c

IsDigit(c) == \E i \in 1..10 : DigitChars[i] = c
DigitVal(c) == (CHOOSE i \in 1..10 : DigitChars[i] = c) - 1
IsSpace(c) == c = " "

\* str.lower()
LowerChar(c) ==
    IF \E i \in 1..26 : UpperChars[i] = c
    THEN LowerChars[CHOOSE i \in 1..26 : UpperChars[i] = c]
    ELSE c
Lower(s) == SubSeq([i \in 1..Len(s) |-> LowerChar(s[i])], 1, Len(s))

\* str.strip()
RECURSIVE LStrip(_)
LStrip(s) == IF s # <<>> /\ IsSpace(Head(s)) THEN LStrip(Tail(s)) ELSE s
RECURSIVE RStrip(_)
RStrip(s) ==
    IF s # <<>> /\ IsSpace(s[Len(s)]) THEN RStrip(SubSeq(s, 1, Len(s) - 1)) ELSE s
Strip(s) == RStrip(LStrip(s))

\* s[i:] of Python, 1-based: the text from position i on.
From(s, i) == SubSeq(s, i, Len(s))

StartsWith(s, p) == Len(p) <= Len(s) /\ SubSeq(s, 1, Len(p)) = p
EndsWith(s, p) == Len(p) <= Len(s) /\ SubSeq(s, Len(s) - Len(p) + 1, Len(s)) = p
\* "sub in s"
Contains(s, sub) == \E i \in 1..(Len(s) - Len(sub) + 1) : StartsWith(From(s, i), sub)
\* str.replace(a, b) for single characters
ReplaceChar(s, a, b) == [i \in 1..Len(s) |-> IF s[i] = a THEN b ELSE s[i]]

\* The length of the run of characters satisfying a class at the head of s.
RECURSIVE DigitRun(_)
DigitRun(s) == IF s # <<>> /\ IsDigit(Head(s)) THEN 1 + DigitRun(Tail(s)) ELSE 0
RECURSIVE SpaceRun(_)
SpaceRun(s) == IF s # <<>> /\ IsSpace(Head(s)) THEN 1 + SpaceRun(Tail(s)) ELSE 0

\* int(digits)
RECURSIVE DecValue(_)
DecValue(s) ==
    IF s = <<>> THEN 0 ELSE 10 * DecValue(SubSeq(s, 1, Len(s) - 1)) + DigitVal(s[Len(s)])
\* str(n) for n >= 0
RECURSIVE DecText(_)
DecText(n) ==
    IF n < 10 THEN <<DigitChars[n + 1]>> ELSE DecText(n \div 10) \o <<DigitChars[(n % 10) + 1]>>

\* Lexicographic order of text by code point: sorted() on file names.
RECURSIVE TextLess(_, _)
TextLess(a, b) ==
    IF b = <<>> THEN FALSE
    ELSE IF a = <<>> THEN TRUE
    ELSE IF Head(a) = Head(b) THEN TextLess(Tail(a), Tail(b))
    ELSE Ord(Head(a)) < Ord(Head(b))

(***************************************************************************)
(* Optional values, floats and instants                                    *)
(***************************************************************************)
\* None and a value, for the results that are "x or None" in the script.
None == [ok |-> FALSE, v |-> 0]
Some(x) == [ok |-> TRUE, v |-> x]

\* Resolution of the clock of the model: ticks per millisecond (datetime and
\* timedelta keep microseconds; the model keeps tenths of a millisecond).
TicksPerMs == 10
TicksPerSec == 1000 * TicksPerMs
TicksPerDay == 86400 * TicksPerSec
\* Decimal digits of a second that one tick resolves.
FracDigits == 4

RECURSIVE Pow10(_)
Pow10(k) == IF k = 0 THEN 1 ELSE 10 * Pow10(k - 1)

\* The ticks denoted by the digits after a decimal point (rounded to a tick).
FracTicks(digs) ==
    IF Len(digs) <= FracDigits
    THEN DecValue(digs) * Pow10(FracDigits - Len(digs))
    ELSE DecValue(SubSeq(digs, 1, FracDigits))
         + (IF DigitVal(digs[FracDigits + 1]) >= 5 THEN 1 ELSE 0)

\* A Python float: a number (in ticks, for seconds), nan or +-inf.
FNum(x) == [k |-> "num", v |-> x]
FNan == [k |-> "nan", v |-> 0]
FInf == [k |-> "inf", v |-> 0]
FRaise == [k |-> "raise", v |-> 0]

\* "H:MM:SS[.f]" read as a count of ticks; maxHour bounds the hour field
\* (24 for a time of day, unbounded for a duration).  None when s has not
\* this form.
ClockTicks(s, maxHour) ==
    LET hn == DigitRun(s)
        r1 == From(s, hn + 2)
        mn == DigitRun(r1)
        r2 == From(r1, mn + 2)
        sn == DigitRun(r2)
        r3 == From(r2, sn + 1)
    IN  IF /\ hn >= 1 /\ Len(s) > hn /\ s[hn + 1] = ":"
           /\ mn \in {1, 2} /\ Len(r1) > mn /\ r1[mn + 1] = ":"
           /\ sn \in {1, 2}
           /\ \/ r3 = <<>>
              \/ /\ Len(r3) >= 2 /\ r3[1] = "."
                 /\ DigitRun(Tail(r3)) = Len(r3) - 1
        THEN LET h  == DecValue(SubSeq(s, 1, hn))
                 m  == DecValue(SubSeq(r1, 1, mn))
                 sc == DecValue(SubSeq(r2, 1, sn))
                 f  == IF r3 = <<>> THEN 0 ELSE FracTicks(Tail(r3))
             IN  IF (maxHour = 0 \/ h < maxHour) /\ m < 60 /\ sc < 60
                 THEN Some(((h * 60 + m) * 60 + sc) * TicksPerSec + f)
                 ELSE None
        ELSE None

\* pd.to_datetime(text): the text forms of the model are a time of day
\* (taken on the current day, day 0 of the model) or text that is no date.
to_datetime(s) == ClockTicks(Strip(s), 24)

\* pd.to_timedelta(text): a clock duration, or an exception (None).
to_timedelta(s) == ClockTicks(s, 0)

\* float(text): [sign] digits [. digits], nan, inf, infinity; FRaise otherwise.
PyFloat(text) ==
    LET t   == Strip(text)
        neg == t # <<>> /\ Head(t) = "-"
        u   == IF t # <<>> /\ Head(t) \in {"-", "+"} THEN Tail(t) ELSE t
        lu  == Lower(u)
        n   == DigitRun(u)
        r   == From(u, n + 1)
    IN  IF lu = <<"n","a","n">> THEN FNan
        ELSE IF lu \in {<<"i","n","f">>, <<"i","n","f","i","n","i","t","y">>} THEN FInf
        ELSE IF n >= 1 /\ r = <<>>
             THEN FNum((IF neg THEN -1 ELSE 1) * DecValue(u) * TicksPerSec)
        ELSE IF /\ r # <<>> /\ r[1] = "."
                /\ DigitRun(Tail(r)) = Len(r) - 1
                /\ n + Len(r) - 1 >= 1
             THEN FNum((IF neg THEN -1 ELSE 1)
                       * (DecValue(SubSeq(u, 1, n)) * TicksPerSec + FracTicks(Tail(r))))
        ELSE FRaise

(***************************************************************************)
(* Cells of a worksheet or of the log: empty, text, or a number            *)
(***************************************************************************)
Empty == [k |-> "none", s |-> <<>>, v |-> 0]
Txt(s) == [k |-> "str", s |-> s, v |-> 0]
Num(x) == [k |-> "num", s |-> <<>>, v |-> x]

(***************************************************************************)
(* src/matchtime.py: configuration and pure functions                      *)
(***************************************************************************)
EVENT_STATIC ==
    { <<"Q","T","M"," ","S","t","a","r","t"," ","C","o","m","m","a","n","d"," ","S","e","n","t">>,
      <<"Q","T","M"," ","R","e","c","o","r","d","i","n","g"," ","S","t","a","r","t","e","d">>,
      <<"B","e","e","p"," ","S","t","a","r","t","e","d">> }

\* re.search(r"LED_\d+_Lit", s, IGNORECASE)
SearchLedLit(s) ==
    \E i \in 1..Len(s) :
        LET r == Lower(From(s, i))
            d == DigitRun(From(r, 5))
        IN  /\ StartsWith(r, <<"l","e","d","_">>)
            /\ d >= 1
            /\ StartsWith(From(r, 5 + d), <<"_","l","i","t">>)

\* re.search(r"#\d+\s*-\s*pressed", s, IGNORECASE)
SearchPressed(s) ==
    \E i \in 1..Len(s) :
        LET r  == Lower(From(s, i))
            d  == DigitRun(From(r, 2))
            a  == From(r, 2 + d)
            b  == From(a, SpaceRun(a) + 1)
            c  == From(b, 2)
        IN  /\ r[1] = "#"
            /\ d >= 1
            /\ b # <<>> /\ b[1] = "-"
            /\ StartsWith(From(c, SpaceRun(c) + 1), <<"p","r","e","s","s","e","d">>)

\* A test that takes every label naming a button, #<n>, pressed or not.
matches_any_button_event(s) ==
    \/ Strip(s) \in EVENT_STATIC
    \/ SearchLedLit(s)
    \/ \E i \in 1..Len(s) : s[i] = "#" /\ DigitRun(From(s, i + 1)) >= 1

\* The event labels of the log are text (a label is never None here).
matches_event_name(s) ==
    \/ Strip(s) \in EVENT_STATIC
    \/ SearchLedLit(s)
    \/ SearchPressed(s)

\* str.contains("QTM Start Command Sent", case=False)
ContainsStartCommand(s) ==
    Contains(Lower(s), <<"q","t","m"," ","s","t","a","r","t"," ","c","o","m","m","a","n","d"," ","s","e","n","t">>)

\* safe_to_datetime on a cell of the timestamp column: None for a missing
\* value and for text that no parser accepts (both attempts of the function
\* read the same text form in the model).
safe_to_datetime(val) ==
    IF val.k = "none" THEN None
    ELSE IF val.k = "str" THEN to_datetime(val.s)
    ELSE None

\* pandas.NaT, the missing instant: it stands where an instant stands, is
\* no instant of any day, and arithmetic on it gives NaT or nan.
NaT == 0 - TicksPerDay

\* pd.to_datetime(str(ev_ts_raw), format="%H:%M:%S.%f") of line 219, reached
\* with a value safe_to_datetime gave None for.  str() of a missing value is
\* "nan", which pandas reads as NaT without raising; text that
\* safe_to_datetime refused raises here too (None).
to_datetime_with_format(val) ==
    IF val.k = "none" THEN Some(NaT) ELSE None

\* ev_ts of lines 215-222: safe_to_datetime, then the retry.
event_timestamp(val) ==
    IF safe_to_datetime(val).ok THEN safe_to_datetime(val)
    ELSE to_datetime_with_format(val)

\* parse_seconds_from_qtm_time: seconds (in ticks) as a float, or None
\* (k = "none").  A numeric cell prints and reads back as itself.
parse_seconds_from_qtm_time(cell_val) ==
    IF cell_val.k = "none" THEN [k |-> "none", v |-> 0]
    ELSE IF cell_val.k = "num" THEN FNum(cell_val.v)
    ELSE LET s == Strip(cell_val.s)
             td == to_timedelta(s)
             f == PyFloat(ReplaceChar(s, ",", "."))
         IN  IF s = <<>> THEN [k |-> "none", v |-> 0]
             ELSE IF Contains(s, <<":">>) /\ td.ok THEN FNum(td.v)
             ELSE IF f.k = "raise" THEN [k |-> "none", v |-> 0]
             ELSE f

\* A split at the first dot of the name instead of the last.
SplitExtFirstDot(fname) ==
    LET dots == {i \in 2..Len(fname) :
                    fname[i] = "." /\ \E j \in 1..(i - 1) : fname[j] # "."}
    IN  IF dots = {} THEN fname
        ELSE SubSeq(fname, 1, (CHOOSE i \in dots : \A j \in dots : i <= j) - 1)

\* os.path.splitext(os.path.basename(fname))[0]: the name without its last
\* extension (a dot that starts the name begins no extension).
SplitExtBase(fname) ==
    LET dots == {i \in 2..Len(fname) :
                    fname[i] = "." /\ \E j \in 1..(i - 1) : fname[j] # "."}
    IN  IF dots = {} THEN fname
        ELSE SubSeq(fname, 1, (CHOOSE i \in dots : \A j \in dots : j <= i) - 1)

NoParse == [ok |-> FALSE, task |-> <<>>, trial |-> 0, subject |-> <<>>]
Parsed(t, n, s) == [ok |-> TRUE, task |-> t, trial |-> n, subject |-> s]

\* (?P<task>.+?)_Trial(?P<trial>\d+?)_(?P<subject>.+)$ , IGNORECASE, with the
\* task ending at position i.
MainPatternAt(base, i) ==
    LET r == From(base, i + 1)
        d == DigitRun(From(r, 7))
    IN  IF /\ Len(r) >= 6 /\ r[1] = "_"
           /\ Lower(SubSeq(r, 1, 6)) = <<"_","t","r","i","a","l">>
           /\ d >= 1
           /\ Len(r) >= 7 + d + 1
           /\ r[7 + d] = "_"
        THEN Parsed(SubSeq(base, 1, i), DecValue(SubSeq(r, 7, 6 + d)), From(r, 8 + d))
        ELSE NoParse

IsSep(c) == c \in {"_", "-", " "}

\* (?P<task>.+?)_trial[_\- ]?(?P<trial>\d+)[_\- ]?(?P<subject>.+)$ with the
\* task ending at position i: the digits are taken greedily, then given back
\* one at a time until a non-empty subject is left.
FallbackPatternAt(base, i) ==
    LET r  == From(base, i + 1)
        a  == From(r, 7)
        b  == IF a # <<>> /\ IsSep(Head(a)) THEN Tail(a) ELSE a
        d  == DigitRun(b)
        rest(k) == From(b, k + 1)
        fits(k) == rest(k) # <<>>
    IN  IF /\ Len(r) >= 6 /\ r[1] = "_"
           /\ Lower(SubSeq(r, 1, 6)) = <<"_","t","r","i","a","l">>
           /\ d >= 1
           /\ \E k \in 1..d : fits(k)
        THEN LET k == CHOOSE k \in 1..d : fits(k) /\ \A j \in 1..d : fits(j) => j <= k
                 t == rest(k)
             IN  Parsed(SubSeq(base, 1, i), DecValue(SubSeq(b, 1, k)),
                        IF IsSep(Head(t)) /\ Len(t) >= 2 THEN Tail(t) ELSE t)
        ELSE NoParse

\* The first (shortest task) match of each pattern, as the lazy .+? finds it.
MainPattern(base) ==
    LET hits == {i \in 1..Len(base) : MainPatternAt(base, i).ok}
    IN  IF hits = {} THEN NoParse
        ELSE MainPatternAt(base, CHOOSE i \in hits : \A j \in hits : i <= j)

FallbackPattern(base) ==
    LET hits == {i \in 1..Len(base) : FallbackPatternAt(base, i).ok}
    IN  IF hits = {} THEN NoParse
        ELSE FallbackPatternAt(base, CHOOSE i \in hits : \A j \in hits : i <= j)

parse_qtm_filename(fname) ==
    LET base == SplitExtBase(fname)
        m    == MainPattern(base)
        m2   == FallbackPattern(base)
    IN  IF m.ok THEN m ELSE m2

(***************************************************************************)
(* Worksheets: a rectangular grid, rows of cells (openpyxl, 1-based)       *)
(***************************************************************************)
max_row(ws) == Len(ws)
max_column(ws) == IF ws = <<>> THEN 1 ELSE Len(ws[1])

\* ws.cell(row, column).value
CellValue(ws, r, c) ==
    IF r \in 1..Len(ws) /\ c \in 1..Len(ws[r]) THEN ws[r][c] ELSE Empty

\* ws.insert_cols(c): the cells at column c and beyond move one to the right.
insert_cols(ws, c) ==
    [r \in 1..Len(ws) |->
        IF c > Len(ws[r]) THEN ws[r]
        ELSE SubSeq(ws[r], 1, c - 1) \o <<Empty>> \o SubSeq(ws[r], c, Len(ws[r]))]

\* ws.cell(row, column).value = val: the sheet grows to hold the cell.
SetCell(ws, r, c, val) ==
    LET rows == IF Len(ws) >= r THEN Len(ws) ELSE r
        cols == IF max_column(ws) >= c THEN max_column(ws) ELSE c
    IN  [i \in 1..rows |->
            [j \in 1..cols |->
                IF i = r /\ j = c THEN val ELSE CellValue(ws, i, j)]]

\* "%02d" and "%03d"
Pad2(n) == <<DigitChars[((n \div 10) % 10) + 1], DigitChars[(n % 10) + 1]>>
Pad3(n) == <<DigitChars[((n \div 100) % 10) + 1]>> \o Pad2(n % 100)

\* str(v) of a cell value: text as it is, a number as its decimal digits.
CellStr(cell) ==
    IF cell.k = "str" THEN cell.s
    ELSE IF cell.k = "num"
         THEN (IF cell.v < 0 THEN <<"-">> ELSE <<>>)
              \o DecText((IF cell.v < 0 THEN -cell.v ELSE cell.v) \div TicksPerSec)
              \o <<".">>
              \o Pad3(((IF cell.v < 0 THEN -cell.v ELSE cell.v) % TicksPerSec) \div TicksPerMs)
         ELSE <<>>

\* " ".join(vals)
RECURSIVE JoinSpace(_)
JoinSpace(vals) ==
    IF vals = <<>> THEN <<>>
    ELSE IF Len(vals) = 1 THEN vals[1]
    ELSE vals[1] \o <<" ">> \o JoinSpace(Tail(vals))

MAX_SEARCH_ROW == 12
FALLBACK_HEADER_ROW == 4

\* A scan that does not stop at max_search_row.
find_header_row_unbounded(ws) ==
    LET row_text(r) == JoinSpace([c \in 1..max_column(ws) |-> Lower(CellStr(CellValue(ws, r, c)))])
        hits == {r \in 1..max_row(ws) :
                    /\ Contains(row_text(r), <<"f","r","a","m","e">>)
                    /\ Contains(row_text(r), <<"t","i","m","e">>)}
    IN  IF hits = {} THEN FALLBACK_HEADER_ROW
        ELSE CHOOSE r \in hits : \A q \in hits : r <= q

find_header_row(ws) ==
    LET limit == IF MAX_SEARCH_ROW < max_row(ws) THEN MAX_SEARCH_ROW ELSE max_row(ws)
        row_text(r) == JoinSpace([c \in 1..max_column(ws) |-> Lower(CellStr(CellValue(ws, r, c)))])
        hits == {r \in 1..limit :
                    /\ Contains(row_text(r), <<"f","r","a","m","e">>)
                    /\ Contains(row_text(r), <<"t","i","m","e">>)}
    IN  IF hits = {} THEN FALLBACK_HEADER_ROW
        ELSE CHOOSE r \in hits : \A q \in hits : r <= q

\* find_col_by_keyword for the one keyword the script asks for.
find_col_by_keyword(ws, header_row, kw) ==
    LET hits == {c \in 1..max_column(ws) :
                    /\ CellValue(ws, header_row, c).k # "none"
                    /\ Contains(Lower(CellStr(CellValue(ws, header_row, c))), kw)}
    IN  IF hits = {} THEN None
        ELSE Some(CHOOSE c \in hits : \A d \in hits : c <= d)

\* Rows between the header row and the first data row.
DATA_ROW_OFFSET == 3
EVENT_COL == 1
GLOBAL_TIME_COL == 4

\* gtime.strftime("%H:%M:%S.%f")[:-3] of an instant (ticks from midnight of
\* day 0): the time of day, the fraction cut to milliseconds.
FormatTime(t) ==
    LET tod == t % TicksPerDay
        sec == tod \div TicksPerSec
    IN  Pad2(sec \div 3600) \o <<":">> \o Pad2((sec \div 60) % 60) \o <<":">>
        \o Pad2(sec % 60) \o <<".">> \o Pad3((tod % TicksPerSec) \div TicksPerMs)

\* A reconstruction that keeps only the whole milliseconds of the offset;
\* the frame-index property tells it from the one of the script.
ReconstructTimeWholeMs(start_time, secs) == start_time + (secs \div TicksPerMs) * TicksPerMs

\* start_time + timedelta(seconds=secs)
ReconstructTime(start_time, secs) == start_time + secs

Abs(x) == IF x < 0 THEN -x ELSE x

\* abs((row_to_global[r] - ev_dt).total_seconds())
TimeDiff(t, ev_dt) == Abs(t - ev_dt)

\* A search that keeps the last of the entries at the least difference; the
\* nearest-frame property tells it from min().
NearestEntryLast(index, ev_dt) ==
    CHOOSE i \in 1..Len(index) :
        /\ \A j \in 1..Len(index) :
              TimeDiff(index[i].t, ev_dt) <= TimeDiff(index[j].t, ev_dt)
        /\ \A j \in (i + 1)..Len(index) :
              TimeDiff(index[j].t, ev_dt) > TimeDiff(index[i].t, ev_dt)

\* min(row_to_global.keys(), key=...): the first entry, in the dict's order
\* of insertion, whose difference no entry undercuts.  index is the
\* sequence of the dict's items, <<row, instant>>.
NearestEntry(index, ev_dt) ==
    CHOOSE i \in 1..Len(index) :
        /\ \A j \in 1..Len(index) :
              TimeDiff(index[i].t, ev_dt) <= TimeDiff(index[j].t, ev_dt)
        /\ \A j \in 1..(i - 1) :
              TimeDiff(index[j].t, ev_dt) > TimeDiff(index[i].t, ev_dt)

\* A cell update that replaces what the cell holds; the label-accumulation
\* property tells it from the appending one.
AppendLabelOverwrites(cur, ev_name) == Txt(ev_name)

\* f"{cur} | {ev_name}" when the cell holds non-blank text, else ev_name.
AppendLabel(cur, ev_name) ==
    IF cur.k # "none" /\ Strip(CellStr(cur)) # <<>>
    THEN Txt(CellStr(cur) \o <<" ","|"," ">> \o ev_name)
    ELSE Txt(ev_name)

\* A comparison that also warns at the tolerance itself.
DriftWarnsAtLimit(tolerance, diff) == tolerance.ok /\ diff >= tolerance.v

\* (MAX_MATCH_SECONDS is not None) and (diff > MAX_MATCH_SECONDS)
DriftWarns(tolerance, diff) == tolerance.ok /\ diff > tolerance.v

\* Default of MAX_MATCH_SECONDS: 0.5 s, in milliseconds.
DEFAULT_MAX_MATCH_MS == 500

(***************************************************************************)
(* main(): the filter of the log and the selection of a trial's rows       *)
(***************************************************************************)
\* get_log_column_mapping: for each key the column the loop ends with, by
\* position; None when it raises KeyError for a key without a column.  (The
\* rows of the model carry their cells under the keys already.)
get_log_column_mapping(columns) ==
    LET with(kw) == {i \in 1..Len(columns) : Contains(Lower(columns[i]), kw)}
        first(S) == CHOOSE i \in S : \A j \in S : i <= j
        last(S)  == CHOOSE i \in S : \A j \in S : j <= i
        subject   == with(<<"s","u","b","j","e","c","t">>)
        task      == with(<<"t","a","s","k">>)
        taskname  == task \cap with(<<"n","a","m","e">>)
        trial     == with(<<"t","r","i","a","l">>)
        timestamp == with(<<"t","i","m","e">>)
        event     == with(<<"e","v","e","n","t">>)
    IN  IF {} \in {subject, task, trial, timestamp, event} THEN None
        ELSE Some([subject |-> last(subject),
                   task |-> last(taskname \cup {first(task)}),
                   trial |-> first(trial),
                   timestamp |-> first(timestamp),
                   event |-> first(event)])

\* log_df_filtered of main(): the rows under the boolean mask, order kept.
FilterLog(df) ==
    LET keep(row) == matches_event_name(row.event) \/ ContainsStartCommand(row.event)
    IN  SelectSeq(df, keep)

\* astype(float) of one cell of the trial column
TrialFloat(cell) ==
    IF cell.k = "none" THEN FNan
    ELSE IF cell.k = "num" THEN FNum(cell.v)
    ELSE PyFloat(cell.s)

\* astype(float).astype('Int64') succeeds on the whole column: every cell
\* reads as a float, and every float is an integer or missing.
TrialColumnIsNumeric(df) ==
    \A i \in 1..Len(df) :
        LET f == TrialFloat(df[i].trial)
        IN  f.k = "nan" \/ (f.k = "num" /\ f.v % TicksPerSec = 0)

\* astype(str) of one cell of the trial column
TrialStr(cell) ==
    IF cell.k = "none" THEN <<"n","a","n">>
    ELSE IF cell.k = "num" /\ cell.v >= 0 /\ cell.v % TicksPerSec = 0
         THEN DecText(cell.v \div TicksPerSec)
    ELSE CellStr(cell)

\* One cell under the trial mask: the numeric comparison when the column
\* converts, else str.contains(str(trial_num)).
TrialMatches(numeric, cell, trial_num) ==
    IF numeric
    THEN LET f == TrialFloat(cell)
         IN  f.k = "num" /\ f.v = trial_num * TicksPerSec
    ELSE Contains(TrialStr(cell), DecText(trial_num))

\* trial_events of main(): the rows of the filtered log under the mask.
SelectTrialEvents(df, parsed) ==
    LET task_norm    == Lower(Strip(parsed.task))
        subject_norm == Lower(Strip(parsed.subject))
        numeric      == TrialColumnIsNumeric(df)
        mask(row) == /\ Lower(Strip(row.subject)) = subject_norm
                     /\ Lower(Strip(row.task)) = task_norm
                     /\ TrialMatches(numeric, row.trial, parsed.trial)
    IN  SelectSeq(df, mask)

\* The tests of the input scan of main().
IsXlsx(fname) == EndsWith(Lower(fname), <<".","x","l","s","x">>)
IsTempFile(fname) == StartsWith(fname, <<"~","$">>)
IsSyncedOutput(fname) ==
    EndsWith(Lower(fname), <<"_","s","y","n","c","e","d",".","x","l","s","x">>)
\* A scan without the test for the outputs of an earlier run.
AcceptedWithOutputs(fname) == IsXlsx(fname) /\ ~IsTempFile(fname)
AcceptedByScan(fname) == IsXlsx(fname) /\ ~IsTempFile(fname) /\ ~IsSyncedOutput(fname)

\* A save under the name of the file that was loaded.
OutNameInPlace(fname) == fname

\* out_name of process_single_qtm
OutName(fname) == SplitExtBase(fname) \o <<"_","s","y","n","c","e","d",".","x","l","s","x">>

\* sorted(names): the names in ascending order.
RECURSIVE SortNames(_)
SortNames(S) ==
    IF S = {} THEN <<>>
    ELSE LET m == CHOOSE x \in S : \A y \in S \ {x} : TextLess(x, y)
         IN  <<m>> \o SortNames(S \ {m})

(***************************************************************************)
(* State of one run of main()                                              *)
(***************************************************************************)
VARIABLES
    LOG_FILE,           \* the event log on disk: [readable, columns, rows]
    QTM_FOLDER,         \* the capture folder: [exists, files], a file is [name, readable, grid]
    OUTPUT_FOLDER,      \* where the outputs go: "QTM_FOLDER" (the capture folder itself) or "TimeMatched"
    MAX_MATCH_SECONDS,  \* the tolerance in ticks, or None
    pc,                 \* where main() stands
    log_df_filtered,    \* the rows of the log kept by the event filter of main()
    queue,              \* the names the for loop of main() has still to visit
    fname,              \* the file process_single_qtm is working on
    trial_events,       \* the rows of the log selected for fname
    ws,                 \* the worksheet of fname in memory
    header_row,
    time_col,
    start_time,
    r,                  \* the row the indexing loop has reached
    row_to_global,      \* the dict row -> instant, as its items in insertion order
    ev_list,            \* the (label, instant) pairs to match
    ev_i,               \* the position of the matching loop in ev_list
    matches,            \* what each pass of the matching loop computed: label, instant, row, diff
    outputs,            \* the files saved under OUTPUT_FOLDER: [name, ws]
    diagnostics,        \* the lines printed, in order
    status,             \* per file of the folder, the stage it has reached
    run,                \* how many times the script has been started
    previous            \* how the run before this one ended: [pc, status, outputs, diagnostics]

\* The recorder of src/qtmbeeprealbuttons_alltimestamped.py, whose session is
\* over before the script above is run.
VARIABLES
    num_buttons,        \* the answer to the set-up dialog
    button_pool,        \* the buttons not yet chosen, a list
    current_button,     \* the button chosen last, or None
    trial_number,
    qtm_connection,     \* None, or Some(i) for the connection opened by coroutine i
    event_log,          \* the entries appended: [trial, button, event]
    arduino,            \* the commands written to the serial port, in order
    coroutines,         \* one start_recording_and_trial per click: [pc, wake]
    beep_threads,       \* play_beep_blocking threads started that have not logged yet
    clock               \* the time of the event loop, in half seconds

recorder == <<num_buttons, button_pool, current_button, trial_number, qtm_connection,
              event_log, arduino, coroutines, beep_threads, clock>>

vars == <<recorder, LOG_FILE, QTM_FOLDER, OUTPUT_FOLDER, MAX_MATCH_SECONDS, run, previous, pc, log_df_filtered, queue, fname, trial_events, ws,
          header_row, time_col, start_time, r, row_to_global, ev_list, ev_i, matches,
          outputs, diagnostics, status>>

\* What no step of a run changes: the configuration, and the record of the
\* runs before.
inputs == <<LOG_FILE, QTM_FOLDER, OUTPUT_FOLDER, MAX_MATCH_SECONDS, run, previous, recorder>>
main_locals == <<inputs, log_df_filtered>>
file_locals == <<fname, trial_events, ws, header_row, time_col, start_time, r,
                 row_to_global, ev_list, ev_i, matches>>

FileNames == {f.name : f \in QTM_FOLDER.files}
FileNamed(n) == CHOOSE f \in QTM_FOLDER.files : f.name = n

\* os.listdir(QTM_FOLDER): the capture files, and the files saved so far
\* when they are saved into the capture folder.
SavedInFolder == IF OUTPUT_FOLDER = "QTM_FOLDER" THEN outputs ELSE {}
FolderNames == FileNames \cup {o.name : o \in SavedInFolder}
\* The file load_workbook finds under a name of the folder: what was last
\* saved under that name, else the capture file.
OnDisk(n) ==
    IF \E o \in SavedInFolder : o.name = n
    THEN [name |-> n, readable |-> TRUE, grid |-> (CHOOSE o \in SavedInFolder : o.name = n).ws]
    ELSE FileNamed(n)

\* One printed line: the file it names, its kind, and the event, row and
\* difference it reports (when it reports them).
Diag(file, kind, ev, row, diff) ==
    [file |-> file, kind |-> kind, ev |-> ev, row |-> row, diff |-> diff]
FileDiag(file, kind) == Diag(file, kind, <<>>, 0, 0)

(***************************************************************************)
(* main(), lines 247-301                                                   *)
(***************************************************************************)
\* A start that reads the log and does not look for its columns.
LoadLogWithoutMapping ==
    /\ pc = "start"
    /\ IF LOG_FILE.readable
       THEN pc' = "list" /\ log_df_filtered' = FilterLog(LOG_FILE.rows)
       ELSE pc' = "fatal" /\ log_df_filtered' = log_df_filtered
    /\ UNCHANGED <<inputs, queue, file_locals, outputs, diagnostics, status>>

\* pd.read_excel(LOG_FILE) and get_log_column_mapping: an unreadable log,
\* or a log without a column for one of the keys, raises out of main().
LoadLog ==
    /\ pc = "start"
    /\ IF LOG_FILE.readable /\ get_log_column_mapping(LOG_FILE.columns).ok
       THEN pc' = "list" /\ log_df_filtered' = FilterLog(LOG_FILE.rows)
       ELSE pc' = "fatal" /\ log_df_filtered' = log_df_filtered
    /\ UNCHANGED <<inputs, queue, file_locals, outputs, diagnostics, status>>

\* sorted(os.listdir(QTM_FOLDER)): a missing folder raises out of main().
ListFolder ==
    /\ pc = "list"
    /\ IF QTM_FOLDER.exists
       THEN pc' = "scan" /\ queue' = SortNames(FolderNames)
       ELSE pc' = "fatal" /\ queue' = queue
    /\ UNCHANGED <<main_locals, file_locals, outputs, diagnostics, status>>

\* A name the scan does not take as an input: no .xlsx, a ~$ temp file, or a
\* *_synced.xlsx output.
ScanSkip ==
    /\ pc = "scan" /\ queue # <<>>
    /\ ~AcceptedByScan(Head(queue))
    /\ queue' = Tail(queue)
    /\ status' = [status EXCEPT ![Head(queue)] = "NotInput"]
    /\ UNCHANGED <<main_locals, pc, file_locals, outputs, diagnostics>>

\* A scan that stops at a name it cannot parse instead of going on.
SkipUnparsableAborts ==
    /\ pc = "scan" /\ queue # <<>>
    /\ AcceptedByScan(Head(queue))
    /\ ~parse_qtm_filename(Head(queue)).ok
    /\ queue' = Tail(queue)
    /\ diagnostics' = Append(diagnostics, FileDiag(Head(queue), "unparsable_filename"))
    /\ status' = [status EXCEPT ![Head(queue)] = "SkipName"]
    /\ pc' = "crashed"
    /\ UNCHANGED <<main_locals, file_locals, outputs>>

\* parse_qtm_filename returned None: print and continue.
SkipUnparsable ==
    /\ pc = "scan" /\ queue # <<>>
    /\ AcceptedByScan(Head(queue))
    /\ ~parse_qtm_filename(Head(queue)).ok
    /\ queue' = Tail(queue)
    /\ diagnostics' = Append(diagnostics, FileDiag(Head(queue), "unparsable_filename"))
    /\ status' = [status EXCEPT ![Head(queue)] = "SkipName"]
    /\ UNCHANGED <<main_locals, pc, file_locals, outputs>>

\* An empty selection that prints its line but still calls
\* process_single_qtm (the continue left out).
SkipNoEventsFallsThrough ==
    /\ pc = "scan" /\ queue # <<>>
    /\ AcceptedByScan(Head(queue))
    /\ parse_qtm_filename(Head(queue)).ok
    /\ SelectTrialEvents(log_df_filtered, parse_qtm_filename(Head(queue))) = <<>>
    /\ queue' = Tail(queue)
    /\ diagnostics' = Append(diagnostics, FileDiag(Head(queue), "no_events"))
    /\ fname' = Head(queue)
    /\ trial_events' = <<>>
    /\ pc' = "open"
    /\ status' = [status EXCEPT ![Head(queue)] = "Filtered"]
    /\ UNCHANGED <<main_locals, ws, header_row, time_col, start_time, r, row_to_global,
                   ev_list, ev_i, matches, outputs>>

\* trial_events.empty: print and continue.
SkipNoEvents ==
    /\ pc = "scan" /\ queue # <<>>
    /\ AcceptedByScan(Head(queue))
    /\ parse_qtm_filename(Head(queue)).ok
    /\ SelectTrialEvents(log_df_filtered, parse_qtm_filename(Head(queue))) = <<>>
    /\ queue' = Tail(queue)
    /\ diagnostics' = Append(diagnostics, FileDiag(Head(queue), "no_events"))
    /\ status' = [status EXCEPT ![Head(queue)] = "SkipNoEvents"]
    /\ UNCHANGED <<main_locals, pc, file_locals, outputs>>

\* The call process_single_qtm(qtm_path, trial_events, log_map).
StartFile ==
    /\ pc = "scan" /\ queue # <<>>
    /\ AcceptedByScan(Head(queue))
    /\ parse_qtm_filename(Head(queue)).ok
    /\ SelectTrialEvents(log_df_filtered, parse_qtm_filename(Head(queue))) # <<>>
    /\ queue' = Tail(queue)
    /\ fname' = Head(queue)
    /\ trial_events' = SelectTrialEvents(log_df_filtered, parse_qtm_filename(Head(queue)))
    /\ pc' = "open"
    /\ status' = [status EXCEPT ![Head(queue)] = "Filtered"]
    /\ UNCHANGED <<main_locals, ws, header_row, time_col, start_time, r, row_to_global,
                   ev_list, ev_i, matches, outputs, diagnostics>>

\* The for loop is exhausted: main() returns.
EndBatch ==
    /\ pc = "scan" /\ queue = <<>>
    /\ pc' = "done"
    /\ UNCHANGED <<main_locals, queue, file_locals, outputs, diagnostics, status>>

(***************************************************************************)
(* process_single_qtm, lines 153-244                                       *)
(***************************************************************************)
\* load_workbook raises on a file that is no workbook; nothing in
\* process_single_qtm or main() catches it.
LoadWorkbookRaises ==
    /\ pc = "open"
    /\ ~OnDisk(fname).readable
    /\ pc' = "crashed"
    /\ status' = [status EXCEPT ![fname] = "Failed"]
    /\ UNCHANGED <<main_locals, queue, file_locals, outputs, diagnostics>>

\* The two header labels written over columns 1 and 4 as they are, no
\* column inserted.
AnnotatedSheetInPlace(grid, hr) ==
    SetCell(SetCell(grid, hr, EVENT_COL, Txt(<<"E","v","e","n","t">>)),
            hr, GLOBAL_TIME_COL, Txt(<<"G","l","o","b","a","l"," ","T","i","m","e"," ","S","y","n","c","e","d">>))

\* The sheet after the two insertions and the two header labels.
AnnotatedSheet(grid, hr) ==
    SetCell(SetCell(insert_cols(insert_cols(grid, EVENT_COL), GLOBAL_TIME_COL),
                    hr, EVENT_COL, Txt(<<"E","v","e","n","t">>)),
            hr, GLOBAL_TIME_COL,
            Txt(<<"G","l","o","b","a","l"," ","T","i","m","e"," ","S","y","n","c","e","d">>))

\* Lines 155-173: header row, the two inserted columns and their labels, the
\* time column.
OpenWorkbook ==
    /\ pc = "open"
    /\ OnDisk(fname).readable
    /\ LET hr  == find_header_row(OnDisk(fname).grid)
           ws2 == AnnotatedSheet(OnDisk(fname).grid, hr)
           tc  == find_col_by_keyword(ws2, hr, <<"t","i","m","e">>)
       IN  /\ header_row' = hr
           /\ ws' = ws2
           /\ time_col' = tc
           /\ IF tc.ok
              THEN /\ pc' = "anchor"
                   /\ status' = [status EXCEPT ![fname] = "LayoutDetected"]
                   /\ diagnostics' = diagnostics
              ELSE /\ pc' = "scan"
                   /\ status' = [status EXCEPT ![fname] = "SkipNoTimeColumn"]
                   /\ diagnostics' = Append(diagnostics, FileDiag(fname, "no_time_column"))
    /\ matches' = <<>> /\ row_to_global' = <<>> /\ ev_list' = <<>> /\ ev_i' = 1
    /\ UNCHANGED <<main_locals, queue, fname, trial_events, start_time, r, outputs>>

\* trial_events under start_mask
StartRows == SelectSeq(trial_events, LAMBDA row : ContainsStartCommand(row.event))

AnchorMissing ==
    /\ pc = "anchor"
    /\ StartRows = <<>>
    /\ pc' = "scan"
    /\ diagnostics' = Append(diagnostics, FileDiag(fname, "no_anchor"))
    /\ status' = [status EXCEPT ![fname] = "SkipNoAnchor"]
    /\ UNCHANGED <<main_locals, queue, file_locals, outputs>>

\* An anchor whose timestamp does not parse, taken as midnight instead of
\* ending the file (the return left out).
AnchorUnparsableProceeds ==
    /\ pc = "anchor"
    /\ StartRows # <<>>
    /\ ~safe_to_datetime(StartRows[1].timestamp).ok
    /\ start_time' = 0
    /\ r' = header_row + DATA_ROW_OFFSET
    /\ pc' = "index"
    /\ diagnostics' = Append(diagnostics, FileDiag(fname, "anchor_unparsable"))
    /\ status' = [status EXCEPT ![fname] = "Anchored"]
    /\ UNCHANGED <<main_locals, queue, fname, trial_events, ws, header_row, time_col,
                   row_to_global, ev_list, ev_i, matches, outputs>>

AnchorUnparsable ==
    /\ pc = "anchor"
    /\ StartRows # <<>>
    /\ ~safe_to_datetime(StartRows[1].timestamp).ok
    /\ pc' = "scan"
    /\ diagnostics' = Append(diagnostics, FileDiag(fname, "anchor_unparsable"))
    /\ status' = [status EXCEPT ![fname] = "SkipBadAnchor"]
    /\ UNCHANGED <<main_locals, queue, file_locals, outputs>>

\* An indexing loop that starts on the row under the header row.
AnchorFoundStartsUnderHeader ==
    /\ pc = "anchor"
    /\ StartRows # <<>>
    /\ safe_to_datetime(StartRows[1].timestamp).ok
    /\ start_time' = safe_to_datetime(StartRows[1].timestamp).v
    /\ r' = header_row + 1
    /\ pc' = "index"
    /\ status' = [status EXCEPT ![fname] = "Anchored"]
    /\ UNCHANGED <<main_locals, queue, fname, trial_events, ws, header_row, time_col,
                   row_to_global, ev_list, ev_i, matches, outputs, diagnostics>>

\* Lines 175-190: the first start command of the selection gives start_time;
\* the indexing loop starts at data_start_row.
AnchorFound ==
    /\ pc = "anchor"
    /\ StartRows # <<>>
    /\ safe_to_datetime(StartRows[1].timestamp).ok
    /\ start_time' = safe_to_datetime(StartRows[1].timestamp).v
    /\ r' = header_row + DATA_ROW_OFFSET
    /\ pc' = "index"
    /\ status' = [status EXCEPT ![fname] = "Anchored"]
    /\ UNCHANGED <<main_locals, queue, fname, trial_events, ws, header_row, time_col,
                   row_to_global, ev_list, ev_i, matches, outputs, diagnostics>>

\* secs of the row the loop stands on
RowSecs == parse_seconds_from_qtm_time(CellValue(ws, r, time_col.v))

\* A loop that counts a row without a usable time as offset zero.
IndexRowSkipZeroFills ==
    /\ pc = "index" /\ r <= max_row(ws)
    /\ RowSecs.k \in {"none", "nan"}
    /\ ws' = SetCell(ws, r, GLOBAL_TIME_COL, Txt(FormatTime(start_time)))
    /\ row_to_global' = Append(row_to_global, [row |-> r, t |-> start_time])
    /\ r' = r + 1
    /\ UNCHANGED <<main_locals, pc, queue, fname, trial_events, header_row, time_col,
                   start_time, ev_list, ev_i, matches, outputs, diagnostics, status>>

\* secs is None or nan: continue.
IndexRowSkip ==
    /\ pc = "index" /\ r <= max_row(ws)
    /\ RowSecs.k \in {"none", "nan"}
    /\ r' = r + 1
    /\ UNCHANGED <<main_locals, pc, queue, fname, trial_events, ws, header_row, time_col,
                   start_time, row_to_global, ev_list, ev_i, matches, outputs,
                   diagnostics, status>>

\* timedelta(seconds=inf) raises OverflowError; nothing catches it.
IndexRowRaises ==
    /\ pc = "index" /\ r <= max_row(ws)
    /\ RowSecs.k = "inf"
    /\ pc' = "crashed"
    /\ status' = [status EXCEPT ![fname] = "Failed"]
    /\ UNCHANGED <<main_locals, queue, file_locals, outputs, diagnostics>>

IndexRowWrite ==
    /\ pc = "index" /\ r <= max_row(ws)
    /\ RowSecs.k = "num"
    /\ LET gtime == ReconstructTime(start_time, RowSecs.v)
       IN  /\ ws' = SetCell(ws, r, GLOBAL_TIME_COL, Txt(FormatTime(gtime)))
           /\ row_to_global' = Append(row_to_global, [row |-> r, t |-> gtime])
    /\ r' = r + 1
    /\ UNCHANGED <<main_locals, pc, queue, fname, trial_events, header_row, time_col,
                   start_time, ev_list, ev_i, matches, outputs, diagnostics, status>>

\* An empty frame index that prints its line and goes on to the save (the
\* return left out), no event being matched.
IndexEmptyFallsThrough ==
    /\ pc = "index" /\ r > max_row(ws)
    /\ row_to_global = <<>>
    /\ pc' = "match"
    /\ ev_list' = <<>>
    /\ ev_i' = 1
    /\ diagnostics' = Append(diagnostics, FileDiag(fname, "no_time_rows"))
    /\ status' = [status EXCEPT ![fname] = "FrameIndexed"]
    /\ UNCHANGED <<main_locals, queue, fname, trial_events, ws, header_row, time_col,
                   start_time, r, row_to_global, matches, outputs>>

\* if not row_to_global: print and return.
IndexEmpty ==
    /\ pc = "index" /\ r > max_row(ws)
    /\ row_to_global = <<>>
    /\ pc' = "scan"
    /\ diagnostics' = Append(diagnostics, FileDiag(fname, "no_time_rows"))
    /\ status' = [status EXCEPT ![fname] = "SkipNoTimeRows"]
    /\ UNCHANGED <<main_locals, queue, file_locals, outputs>>

events_of_interest == SelectSeq(trial_events, LAMBDA row : matches_event_name(row.event))

\* Lines 206-223: the events of interest, each with its parsed timestamp; one
\* line is printed for each timestamp that does not parse.
BuildEventList ==
    /\ pc = "index" /\ r > max_row(ws)
    /\ row_to_global # <<>>
    /\ LET parsed(row) == event_timestamp(row.timestamp).ok
           good == SelectSeq(events_of_interest, parsed)
           bad  == SelectSeq(events_of_interest, LAMBDA row : ~parsed(row))
       IN  /\ ev_list' = [i \in 1..Len(good) |->
                            [name |-> good[i].event,
                             t |-> event_timestamp(good[i].timestamp).v]]
           /\ diagnostics' =
                IF events_of_interest = <<>>
                THEN Append(diagnostics, FileDiag(fname, "no_event_types"))
                ELSE diagnostics \o
                     [i \in 1..Len(bad) |->
                        Diag(fname, "event_unparsable", bad[i].event, 0, 0)]
    /\ ev_i' = 1
    /\ pc' = "match"
    /\ status' = [status EXCEPT ![fname] = "FrameIndexed"]
    /\ UNCHANGED <<main_locals, queue, fname, trial_events, ws, header_row, time_col,
                   start_time, r, row_to_global, matches, outputs>>

\* A matching pass that drops an event beyond the tolerance instead of
\* writing it; the script has no such branch.
MatchEventRejecting ==
    /\ pc = "match" /\ ev_i <= Len(ev_list)
    /\ LET ev          == ev_list[ev_i]
           nearest_row == row_to_global[NearestEntry(row_to_global, ev.t)].row
           diff        == TimeDiff(row_to_global[NearestEntry(row_to_global, ev.t)].t, ev.t)
           cur         == CellValue(ws, nearest_row, EVENT_COL)
       IN  IF DriftWarns(MAX_MATCH_SECONDS, diff)
           THEN /\ diagnostics' = Append(diagnostics,
                                         Diag(fname, "drift", ev.name, nearest_row, diff))
                /\ UNCHANGED <<ws, matches>>
           ELSE /\ diagnostics' = diagnostics
                /\ ws' = SetCell(ws, nearest_row, EVENT_COL, AppendLabel(cur, ev.name))
                /\ matches' = Append(matches,
                                     [name |-> ev.name, t |-> ev.t, row |-> nearest_row,
                                      diff |-> diff])
    /\ ev_i' = ev_i + 1
    /\ UNCHANGED <<main_locals, pc, queue, fname, trial_events, header_row, time_col,
                   start_time, r, row_to_global, ev_list, outputs, status>>

\* One pass of the loop of lines 226-237.  For an event whose instant is
\* NaT every difference is nan, no comparison with nan holds, and min()
\* keeps the first key of the dict; diff is nan (written NaT here) and
\* is not greater than the tolerance.
MatchEvent ==
    /\ pc = "match" /\ ev_i <= Len(ev_list)
    /\ LET ev          == ev_list[ev_i]
           nearest     == IF ev.t = NaT THEN 1 ELSE NearestEntry(row_to_global, ev.t)
           nearest_row == row_to_global[nearest].row
           diff        == IF ev.t = NaT THEN NaT ELSE TimeDiff(row_to_global[nearest].t, ev.t)
           cur         == CellValue(ws, nearest_row, EVENT_COL)
       IN  /\ diagnostics' =
                IF DriftWarns(MAX_MATCH_SECONDS, diff)
                THEN Append(diagnostics, Diag(fname, "drift", ev.name, nearest_row, diff))
                ELSE diagnostics
           /\ ws' = SetCell(ws, nearest_row, EVENT_COL, AppendLabel(cur, ev.name))
           /\ matches' = Append(matches,
                                [name |-> ev.name, t |-> ev.t, row |-> nearest_row,
                                 diff |-> diff])
    /\ ev_i' = ev_i + 1
    /\ UNCHANGED <<main_locals, pc, queue, fname, trial_events, header_row, time_col,
                   start_time, r, row_to_global, ev_list, outputs, status>>

\* Lines 239-244: wb.save(out_path).
Save ==
    /\ pc = "match" /\ ev_i > Len(ev_list)
    /\ outputs' = {o \in outputs : o.name # OutName(fname)}
                  \cup {[name |-> OutName(fname), ws |-> ws]}
    /\ diagnostics' = Append(diagnostics, FileDiag(fname, "saved"))
    /\ status' = [status EXCEPT ![fname] = "Saved"]
    /\ pc' = "scan"
    /\ UNCHANGED <<main_locals, queue, file_locals>>

\* The script is started again after it has ended: by returning, by the
\* fatal error of a missing input, or by an uncaught exception. The files
\* saved stay where they are.
MaxRuns == 2
NoRun == [pc |-> "start", status |-> <<>>, outputs |-> {}, diagnostics |-> <<>>]
RunAgain ==
    /\ pc \in {"done", "fatal", "crashed"}
    /\ run < MaxRuns
    /\ run' = run + 1
    /\ previous' = [pc |-> pc, status |-> status, outputs |-> outputs,
                    diagnostics |-> diagnostics]
    /\ pc' = "start"
    /\ log_df_filtered' = <<>>
    /\ queue' = <<>>
    /\ fname' = <<>>
    /\ trial_events' = <<>>
    /\ ws' = <<>>
    /\ header_row' = 0
    /\ time_col' = None
    /\ start_time' = 0
    /\ r' = 0
    /\ row_to_global' = <<>>
    /\ ev_list' = <<>>
    /\ ev_i' = 1
    /\ matches' = <<>>
    /\ diagnostics' = <<>>
    /\ status' = [n \in FolderNames |-> "Discovered"]
    /\ UNCHANGED <<LOG_FILE, QTM_FOLDER, OUTPUT_FOLDER, MAX_MATCH_SECONDS, outputs, recorder>>

(***************************************************************************)
(* src/qtmbeeprealbuttons_alltimestamped.py: the Start Trial button.  Each *)
(* click schedules one start_recording_and_trial coroutine on the event    *)
(* loop thread; the loop runs one coroutine at a time, from one await to   *)
(* the next.  Time is counted in half seconds.                             *)
(***************************************************************************)
MaxButtons == 2
MaxClicks == 2
MaxClock == 8
SLEEP_BEFORE_BEEP == 4
SLEEP_BEFORE_LED == 2

script == <<run, previous, LOG_FILE, QTM_FOLDER, OUTPUT_FOLDER, MAX_MATCH_SECONDS, pc,
            log_df_filtered, queue, file_locals, outputs, diagnostics, status>>

Entry(trial, button, event) == [trial |-> trial, button |-> button, event |-> event]
\* f"LED_{current_button}_ON\n"
LedOnCommand(b) == <<"L","E","D","_">> \o DecText(b) \o <<"_","O","N","\n">>
\* button_pool.remove(b): the first occurrence goes.
Remove(pool, b) ==
    LET i == CHOOSE i \in 1..Len(pool) : pool[i] = b /\ \A j \in 1..(i - 1) : pool[j] # b
    IN  SubSeq(pool, 1, i - 1) \o SubSeq(pool, i + 1, Len(pool))

\* A coroutine that sleeps is due when the loop's time has come to its
\* wake-up time.
Due(i) == coroutines[i].pc \in {"sleep2", "sleep1"} /\ coroutines[i].wake <= clock

\* on_start_button, and the coroutine up to its first await (lines
\* 199-209): with an empty pool it shows the Done box and returns.
StartTrialClicked ==
    /\ Len(coroutines) < MaxClicks
    /\ IF button_pool = <<>>
       THEN /\ coroutines' = Append(coroutines, [pc |-> "returned", wake |-> 0])
            /\ UNCHANGED <<trial_number, event_log>>
       ELSE /\ trial_number' = trial_number + 1
            /\ event_log' = Append(event_log,
                                   Entry(trial_number + 1, None, <<"Q","T","M"," ","S","t","a","r","t"," ","C","o","m","m","a","n","d"," ","S","e","n","t">>))
            /\ coroutines' = Append(coroutines, [pc |-> "connect", wake |-> 0])
    /\ UNCHANGED <<num_buttons, button_pool, current_button, qtm_connection, arduino,
                   beep_threads, clock, script>>

\* start_qtm_recording has started the recording: lines 216-220, up to the
\* sleep of two seconds.
RecordingStartedStep(i) ==
    /\ coroutines[i].pc = "connect"
    /\ qtm_connection' = Some(i)
    /\ event_log' = Append(event_log, Entry(trial_number, None, <<"Q","T","M"," ","R","e","c","o","r","d","i","n","g"," ","S","t","a","r","t","e","d">>))
    /\ coroutines' = [coroutines EXCEPT ![i] = [pc |-> "sleep2",
                                                wake |-> clock + SLEEP_BEFORE_BEEP]]
    /\ UNCHANGED <<num_buttons, button_pool, current_button, trial_number, arduino,
                   beep_threads, clock, script>>
QtmRecordingStarted == \E i \in 1..Len(coroutines) : RecordingStartedStep(i)

\* start_qtm_recording has failed: qtm_connection is None, the error box is
\* scheduled and the coroutine returns (lines 210-214).
RecordingFailedStep(i) ==
    /\ coroutines[i].pc = "connect"
    /\ qtm_connection' = None
    /\ coroutines' = [coroutines EXCEPT ![i] = [pc |-> "returned", wake |-> 0]]
    /\ UNCHANGED <<num_buttons, button_pool, current_button, trial_number, event_log,
                   arduino, beep_threads, clock, script>>
QtmRecordingFailed == \E i \in 1..Len(coroutines) : RecordingFailedStep(i)

\* Lines 222-236: a random button leaves the pool and becomes
\* current_button, the beep thread is started, the coroutine sleeps a second.
ChooseStep(i, b) ==
    /\ Due(i) /\ coroutines[i].pc = "sleep2"
    /\ \E k \in 1..Len(button_pool) : button_pool[k] = b
    /\ current_button' = Some(b)
    /\ button_pool' = Remove(button_pool, b)
    /\ event_log' = Append(event_log, Entry(trial_number, Some(b), <<"B","e","e","p"," ","C","o","m","m","a","n","d"," ","S","e","n","t">>))
    /\ beep_threads' = beep_threads + 1
    /\ coroutines' = [coroutines EXCEPT ![i] = [pc |-> "sleep1",
                                                wake |-> clock + SLEEP_BEFORE_LED]]
    /\ UNCHANGED <<num_buttons, trial_number, qtm_connection, arduino, clock, script>>
ChooseButton == \E i \in 1..Len(coroutines) : \E b \in 1..MaxButtons : ChooseStep(i, b)

\* random.choice of an empty pool raises IndexError; the coroutine ends with
\* the exception.
ChooseRaisesStep(i) ==
    /\ Due(i) /\ coroutines[i].pc = "sleep2"
    /\ button_pool = <<>>
    /\ coroutines' = [coroutines EXCEPT ![i] = [pc |-> "raised", wake |-> 0]]
    /\ UNCHANGED <<num_buttons, button_pool, current_button, trial_number, qtm_connection,
                   event_log, arduino, beep_threads, clock, script>>
ChooseRaises == \E i \in 1..Len(coroutines) : ChooseRaisesStep(i)

\* play_beep_blocking, in its own thread (lines 129-139): the entry is made
\* with the trial_number and current_button of the moment.
BeepStartedLogged ==
    /\ beep_threads > 0
    /\ beep_threads' = beep_threads - 1
    /\ event_log' = Append(event_log, Entry(trial_number, current_button, <<"B","e","e","p"," ","S","t","a","r","t","e","d">>))
    /\ UNCHANGED <<num_buttons, button_pool, current_button, trial_number, qtm_connection,
                   arduino, coroutines, clock, script>>

\* Lines 238-250: the LED command for current_button is logged, written and
\* flushed, and the LED logged as lit.
LightStep(i) ==
    /\ Due(i) /\ coroutines[i].pc = "sleep1"
    /\ event_log' = event_log \o
          << Entry(trial_number, current_button,
                   <<"L","E","D","_">> \o DecText(current_button.v) \o <<"_","O","N"," ","C","o","m","m","a","n","d"," ","S","e","n","t">>),
             Entry(trial_number, current_button,
                   <<"L","E","D","_">> \o DecText(current_button.v) \o <<"_","L","i","t">>) >>
    /\ arduino' = Append(arduino, LedOnCommand(current_button.v))
    /\ coroutines' = [coroutines EXCEPT ![i] = [pc |-> "returned", wake |-> 0]]
    /\ UNCHANGED <<num_buttons, button_pool, current_button, trial_number, qtm_connection,
                   beep_threads, clock, script>>
LightLed == \E i \in 1..Len(coroutines) : LightStep(i)

\* Half a second passes; a coroutine that is due runs before time moves on.
Tick ==
    /\ clock < MaxClock
    /\ \A i \in 1..Len(coroutines) : ~Due(i)
    /\ clock' = clock + 1
    /\ UNCHANGED <<num_buttons, button_pool, current_button, trial_number, qtm_connection,
                   event_log, arduino, coroutines, beep_threads, script>>

\* The globals as the module sets them (lines 72-86), before build_gui.
RecorderOff ==
    /\ num_buttons = 0
    /\ button_pool = <<>>
    /\ current_button = None
    /\ trial_number = 0
    /\ qtm_connection = None
    /\ event_log = <<>>
    /\ arduino = <<>>
    /\ coroutines = <<>>
    /\ beep_threads = 0
    /\ clock = 0

\* build_gui has asked for the number of buttons and filled the pool; the
\* time-matching script is not running.
InitRecorder ==
    /\ num_buttons \in 1..MaxButtons
    /\ button_pool = [b \in 1..num_buttons |-> b]
    /\ current_button = None
    /\ trial_number = 0
    /\ qtm_connection = None
    /\ event_log = <<>>
    /\ arduino = <<>>
    /\ coroutines = <<>>
    /\ beep_threads = 0
    /\ clock = 0
    /\ LOG_FILE = [readable |-> FALSE, columns |-> <<>>, rows |-> <<>>]
    /\ QTM_FOLDER = [exists |-> FALSE, files |-> {}]
    /\ OUTPUT_FOLDER = "TimeMatched"
    /\ MAX_MATCH_SECONDS = Some(DEFAULT_MAX_MATCH_MS * TicksPerMs)
    /\ run = 1
    /\ previous = NoRun
    /\ pc = "start"
    /\ log_df_filtered = <<>>
    /\ queue = <<>>
    /\ fname = <<>>
    /\ trial_events = <<>>
    /\ ws = <<>>
    /\ header_row = 0
    /\ time_col = None
    /\ start_time = 0
    /\ r = 0
    /\ row_to_global = <<>>
    /\ ev_list = <<>>
    /\ ev_i = 1
    /\ matches = <<>>
    /\ outputs = {}
    /\ diagnostics = <<>>
    /\ status = <<>>

NextRecorder ==
    \/ StartTrialClicked
    \/ QtmRecordingStarted
    \/ QtmRecordingFailed
    \/ ChooseButton
    \/ ChooseRaises
    \/ BeepStartedLogged
    \/ LightLed
    \/ Tick

SpecRecorder == InitRecorder /\ [][NextRecorder]_vars

(***************************************************************************)
(* Inputs: logs and capture folders the script is run on                   *)
(***************************************************************************)
\* Bounds of the model: events drawn for the log of a one-file run, and
\* files drawn for the folder of a batch.
MaxEvents == 2
MaxFiles == 2

S001 == <<"S","0","0","1">>
S001Loose == <<" ","s","0","0","1"," ">>
S002 == <<"S","0","0","2">>
S003 == <<"S","0","0","3">>
S009 == <<"S","0","0","9">>
Reach == <<"R","e","a","c","h">>
ReachLoose == <<"R","E","A","C","H"," ">>
Grasp == <<"G","r","a","s","p">>
Other == <<"O","t","h","e","r">>
StartCommand == <<"Q","T","M"," ","S","t","a","r","t"," ","C","o","m","m","a","n","d"," ","S","e","n","t">>
RecordingStarted == <<"Q","T","M"," ","R","e","c","o","r","d","i","n","g"," ","S","t","a","r","t","e","d">>
BeepStarted == <<"B","e","e","p"," ","S","t","a","r","t","e","d">>
LedLit == <<"L","E","D","_","3","_","L","i","t">>
Pressed == <<"#","3"," ","-"," ","p","r","e","s","s","e","d">>
PressedTight == <<"#","1","2","-","P","r","e","s","s","e","d">>
Released == <<"#","3"," ","-"," ","r","e","l","e","a","s","e","d">>
HandUsed == <<"H","a","n","d"," ","U","s","e","d">>

\* A whole number as a cell.
Whole(n) == Num(n * TicksPerSec)
\* The instant h:m:s.ms of day 0.
At(h, m, sec, ms) == ((h * 60 + m) * 60 + sec) * TicksPerSec + ms * TicksPerMs
\* now_central().strftime('%H:%M:%S.%f')[:-3] of the recorders: how the log
\* spells an instant.
Stamp(t) == Txt(FormatTime(t))

\* The header of the log as src/taskandtrial.py exports it, and as
\* src/qtmbeeprealbuttons_alltimestamped.py does, without task and subject.
LOG_COLUMNS ==
    << <<"T","r","i","a","l">>, <<"T","a","s","k"," ","N","a","m","e">>,
       <<"U","s","e","s"," ","A","r","d","u","i","n","o">>,
       <<"B","u","t","t","o","n"," ","L","i","t">>,
       <<"T","i","m","e","s","t","a","m","p">>, <<"E","v","e","n","t">>,
       <<"D","u","r","a","t","i","o","n"," ","(","m","s",")">>,
       <<"H","a","n","d"," ","U","s","e","d">>,
       <<"S","u","b","j","e","c","t"," ","I","D">> >>
OLD_LOG_COLUMNS ==
    << <<"T","r","i","a","l">>, <<"B","u","t","t","o","n"," ","L","i","t">>,
       <<"T","i","m","e","s","t","a","m","p">>, <<"E","v","e","n","t">>,
       <<"D","u","r","a","t","i","o","n"," ","(","m","s",")">> >>

LogRow(subject, task, trial, timestamp, event) ==
    [subject |-> subject, task |-> task, trial |-> trial,
     timestamp |-> timestamp, event |-> event]

\* f"{task_name}_Trial{trial_number}_{subject_id}" of the recorder, and the
\* capture file exported under that name.
MeasurementName(task, n, subject) ==
    task \o <<"_","T","r","i","a","l">> \o DecText(n) \o <<"_">> \o subject
CaptureName(task, n, subject) ==
    MeasurementName(task, n, subject) \o <<".","x","l","s","x">>

T0 == At(14, 0, 0, 0)

AnchorRow == LogRow(S001, Reach, Whole(1), Stamp(T0), StartCommand)

\* Events of subject S001, task Reach, trial 1, in the order the log holds
\* them (not the order of their instants).
EventCatalogue ==
    << LogRow(S001Loose, ReachLoose, Whole(1), Stamp(T0 + 2200 * TicksPerMs), Pressed),
       LogRow(S001, Reach, Whole(1), Stamp(T0 + 480 * TicksPerMs), BeepStarted),
       LogRow(S001, Reach, Whole(1), Stamp(T0 + 520 * TicksPerMs), LedLit),
       LogRow(S001, Reach, Whole(1), Stamp(T0 + 250 * TicksPerMs), RecordingStarted),
       LogRow(S001, Reach, Whole(1), Stamp(T0 + 1500 * TicksPerMs), PressedTight),
       LogRow(S001, Reach, Whole(1), Txt(<<"b","a","d">>), BeepStarted),
       LogRow(S001, Reach, Whole(1), Stamp(T0 + 600 * TicksPerMs), Released),
       LogRow(S001, Reach, Whole(1), Stamp(T0 - 100 * TicksPerMs), LedLit) >>

\* The rows of the catalogue at the positions of sel, in catalogue order.
RECURSIVE PickRows(_, _)
PickRows(cat, sel) ==
    IF cat = <<>> THEN <<>>
    ELSE PickRows(SubSeq(cat, 1, Len(cat) - 1), sel)
         \o (IF Len(cat) \in sel THEN <<cat[Len(cat)]>> ELSE <<>>)

\* A capture sheet as QTM exports it: a header row, two rows below it, then
\* one row per frame: frame number, time, one coordinate.
FrameRow(n, time) == <<Whole(n), time, Whole(100 + n)>>
SubHeaderRows == << <<Empty, Empty, Txt(<<"m","m">>)>>, <<Empty, Empty, Empty>> >>

\* Frames at 0.000 s, 0.500 s and 1.000 s, as numbers.
GridPlain ==
    << <<Txt(<<"F","r","a","m","e">>), Txt(<<"T","i","m","e">>), Txt(<<"X">>)>> >>
    \o SubHeaderRows
    \o << FrameRow(1, Num(0)), FrameRow(2, Num(500 * TicksPerMs)),
          FrameRow(3, Num(1000 * TicksPerMs)) >>

\* A title row above the header; the times as text: a clock duration, an
\* empty cell, a comma decimal, nan and a word.
GridText ==
    << <<Txt(<<"Q","T","M"," ","e","x","p","o","r","t">>), Empty, Empty>>,
       <<Txt(<<"F","R","A","M","E">>), Txt(<<"T","I","M","E"," ","(","s",")">>), Txt(<<"X">>)>> >>
    \o SubHeaderRows
    \o << FrameRow(1, Txt(<<"0","0",":","0","0",":","0","0",".","0","0","8","7">>)),
          FrameRow(2, Empty),
          FrameRow(3, Txt(<<"0",",","5">>)),
          FrameRow(4, Txt(<<"n","a","n">>)),
          FrameRow(5, Txt(<<"b","a","d">>)) >>

\* The second frame's time reads as infinity.
GridInf ==
    << <<Txt(<<"F","r","a","m","e">>), Txt(<<"T","i","m","e">>), Txt(<<"X">>)>> >>
    \o SubHeaderRows
    \o << FrameRow(1, Num(0)), FrameRow(2, Txt(<<"i","n","f">>)) >>

\* The time column is the third column of the export.
GridTimeThird ==
    << <<Txt(<<"F","r","a","m","e">>), Txt(<<"X">>), Txt(<<"T","i","m","e">>)>> >>
    \o SubHeaderRows
    \o << <<Whole(1), Whole(101), Num(0)>>, <<Whole(2), Whole(102), Num(500 * TicksPerMs)>> >>

\* An export whose header, on row 4, names no time column: three title
\* rows, the header, two rows, two frames.
GridNoTime ==
    << <<Txt(<<"Q","T","M"," ","e","x","p","o","r","t">>), Empty, Empty>>,
       <<Txt(<<"M","a","r","k","e","r","s">>), Whole(1), Empty>>,
       <<Empty, Empty, Empty>>,
       <<Txt(<<"F","r","a","m","e">>), Txt(<<"E","l","a","p","s","e","d">>), Txt(<<"X">>)>> >>
    \o SubHeaderRows
    \o << FrameRow(1, Num(0)), FrameRow(2, Num(500 * TicksPerMs)) >>

\* The two rows under the header hold values in the time column that read as
\* seconds: a zero under the header, and a text 0.5 under it.
GridUnits ==
    << <<Txt(<<"F","r","a","m","e">>), Txt(<<"T","i","m","e">>), Txt(<<"X">>)>>,
       <<Empty, Num(0), Txt(<<"m","m">>)>>,
       <<Empty, Txt(<<"0",".","5">>), Empty>> >>
    \o << FrameRow(1, Num(0)), FrameRow(2, Num(500 * TicksPerMs)),
          FrameRow(3, Num(1000 * TicksPerMs)) >>

MatchGrids == {GridPlain, GridText, GridUnits}

CaptureFile(name, readable, grid) == [name |-> name, readable |-> readable, grid |-> grid]

FileCatalogue ==
    { CaptureFile(CaptureName(Reach, 1, S001), TRUE, GridPlain),
      CaptureFile(<<"G","r","a","s","p","_","t","r","i","a","l","-","2"," ","S","0","0","2",".","x","l","s","x">>, TRUE, GridText),
      CaptureFile(<<"N","o","t","e","s",".","x","l","s","x">>, TRUE, GridPlain),
      CaptureFile(CaptureName(Reach, 3, S002), TRUE, GridPlain),
      CaptureFile(CaptureName(Reach, 1, S003), FALSE, <<>>),
      CaptureFile(CaptureName(Grasp, 1, S001), TRUE, GridInf),
      CaptureFile(<<"R","e","a","c","h","_","T","r","i","a","l","1","_","S","0","0","1","_","s","y","n","c","e","d",".","x","l","s","x">>, TRUE, GridPlain),
      CaptureFile(<<"~","$","R","e","a","c","h","_","T","r","i","a","l","1","_","S","0","0","1",".","x","l","s","x">>, FALSE, <<>>),
      CaptureFile(CaptureName(Reach, 2, S001), TRUE, GridTimeThird),
      CaptureFile(CaptureName(Grasp, 2, S002), TRUE, GridNoTime) }

\* The rows one trial leaves in the log: the start command and a beep.
TrialBlock(subject, task, trial, t0) ==
    << LogRow(subject, task, trial, Stamp(t0), StartCommand),
       LogRow(subject, task, trial, Stamp(t0 + 800 * TicksPerMs), BeepStarted) >>

GoodBlocks ==
    TrialBlock(S001, Reach, Whole(1), T0)
    \o <<LogRow(S001, Reach, Whole(1), Stamp(T0 + 900 * TicksPerMs), HandUsed)>>
    \o TrialBlock(S002, Grasp, Whole(2), At(14, 5, 0, 0))
    \o TrialBlock(S003, Reach, Whole(1), At(14, 10, 0, 0))
    \o TrialBlock(S001, Grasp, Whole(1), At(14, 15, 0, 0))
    \o TrialBlock(S001, Reach, Whole(2), At(14, 20, 0, 0))

\* Trial 10 of the subject and task of trial 1.
TrialTenBlock == TrialBlock(S001, Reach, Whole(10), At(14, 30, 0, 0))

\* A row whose trial cell is text that is no number.
TextTrialRow ==
    LogRow(S009, Other, Txt(<<"T","1">>), Stamp(At(15, 0, 0, 0)), BeepStarted)

BatchLogs ==
    { GoodBlocks,
      GoodBlocks \o TrialTenBlock,
      GoodBlocks \o TrialTenBlock \o <<TextTrialRow>>,
      \* trial 1 of S001 without its start command, trial 2 of S002 with a
      \* start command whose timestamp is no time
      << LogRow(S001, Reach, Whole(1), Stamp(T0 + 800 * TicksPerMs), BeepStarted),
         LogRow(S002, Grasp, Whole(2), Txt(<<"b","a","d">>), StartCommand),
         LogRow(S002, Grasp, Whole(2), Stamp(At(14, 5, 0, 800)), BeepStarted) >>
      \o TrialBlock(S001, Reach, Whole(2), At(14, 20, 0, 0))
      \o TrialBlock(S002, Reach, Whole(3), At(14, 25, 0, 0)) }

Tolerances == {None, Some(DEFAULT_MAX_MATCH_MS * TicksPerMs)}

\* Events of trial 1 whose timestamp cell is empty or holds text that is no
\* time, and events with a timestamp, before and after them in the log.
StampCatalogue ==
    << LogRow(S001, Reach, Whole(1), Stamp(T0 + 250 * TicksPerMs), RecordingStarted),
       LogRow(S001, Reach, Whole(1), Empty, BeepStarted),
       LogRow(S001, Reach, Whole(1), Txt(<<"b","a","d">>), LedLit),
       LogRow(S001, Reach, Whole(1), Stamp(T0 + 1020 * TicksPerMs), Pressed) >>

\* The label of the start command as the recorders write it, in capitals,
\* and within a longer label.
AnchorLabels ==
    { StartCommand,
      <<"Q","T","M"," ","S","T","A","R","T"," ","C","O","M","M","A","N","D"," ","S","E","N","T">>,
      StartCommand \o <<" ","(","r","e","t","r","y",")">> }

\* One capture file of trial 1 and a log of its start command, under one of
\* those labels, and any of those events.
InitStamps ==
    /\ \E label \in AnchorLabels : \E sel \in SUBSET (1..Len(StampCatalogue)) :
          LOG_FILE = [readable |-> TRUE, columns |-> LOG_COLUMNS,
                      rows |-> <<LogRow(S001, Reach, Whole(1), Stamp(T0), label)>>
                               \o PickRows(StampCatalogue, sel)]
    /\ QTM_FOLDER = [exists |-> TRUE,
                     files |-> {CaptureFile(CaptureName(Reach, 1, S001), TRUE, GridPlain)}]
    /\ MAX_MATCH_SECONDS \in Tolerances

InitLocals ==
    /\ run = 1
    /\ previous = NoRun
    /\ pc = "start"
    /\ log_df_filtered = <<>>
    /\ queue = <<>>
    /\ fname = <<>>
    /\ trial_events = <<>>
    /\ ws = <<>>
    /\ header_row = 0
    /\ time_col = None
    /\ start_time = 0
    /\ r = 0
    /\ row_to_global = <<>>
    /\ ev_list = <<>>
    /\ ev_i = 1
    /\ matches = <<>>
    /\ outputs = {}
    /\ diagnostics = <<>>
    /\ status = [n \in FileNames |-> "Discovered"]

\* One capture file of trial 1 and a log of its start command and up to
\* MaxEvents events, under either setting of the tolerance.
InitMatch ==
    /\ \E sel \in SUBSET (1..Len(EventCatalogue)) :
          /\ Cardinality(sel) <= MaxEvents
          /\ LOG_FILE = [readable |-> TRUE, columns |-> LOG_COLUMNS, rows |-> <<AnchorRow>> \o PickRows(EventCatalogue, sel)]
    /\ \E g \in MatchGrids :
          QTM_FOLDER = [exists |-> TRUE,
                        files |-> {CaptureFile(CaptureName(Reach, 1, S001), TRUE, g)}]
    /\ MAX_MATCH_SECONDS \in Tolerances

\* A folder of up to MaxFiles files and a log of several trials.
InitBatch ==
    /\ LOG_FILE \in {[readable |-> TRUE, columns |-> LOG_COLUMNS, rows |-> l] : l \in BatchLogs}
    /\ \E F \in SUBSET FileCatalogue :
          /\ Cardinality(F) \in 1..MaxFiles
          /\ QTM_FOLDER = [exists |-> TRUE, files |-> F]
    /\ MAX_MATCH_SECONDS = Some(DEFAULT_MAX_MATCH_MS * TicksPerMs)

\* Logs main() cannot use: a file that is no workbook, the log of the older
\* recorder, and a log whose time column was removed.
FatalLogs ==
    { [readable |-> FALSE, columns |-> <<>>, rows |-> <<>>],
      [readable |-> TRUE, columns |-> OLD_LOG_COLUMNS, rows |-> GoodBlocks],
      [readable |-> TRUE,
       columns |-> SelectSeq(LOG_COLUMNS, LAMBDA c : c # <<"T","i","m","e","s","t","a","m","p">>),
       rows |-> GoodBlocks] }

\* A log that cannot be used, or a capture folder that does not exist; the
\* folder, where it exists, holds a capture file of the first trial.
InitFatal ==
    /\ \E log \in FatalLogs \cup {[readable |-> TRUE, columns |-> LOG_COLUMNS, rows |-> GoodBlocks]} :
       \E exists \in BOOLEAN :
          /\ log \in FatalLogs \/ ~exists
          /\ LOG_FILE = log
          /\ QTM_FOLDER = [exists |-> exists,
                           files |-> IF exists
                                     THEN {CaptureFile(CaptureName(Reach, 1, S001), TRUE, GridPlain)}
                                     ELSE {}]
    /\ MAX_MATCH_SECONDS = Some(DEFAULT_MAX_MATCH_MS * TicksPerMs)

\* Exports for the header search: n rows of three columns, a header of the
\* given style on row a (0: none), optionally a second header on the last
\* row, and on every other row a cell with only one of the two words.
MaxLayoutRows == 13
HeaderStyles == {"split", "joined", "upper"}
HeaderLine(style) ==
    CASE style = "split"  -> <<Txt(<<"F","r","a","m","e">>), Txt(<<"T","i","m","e">>), Txt(<<"X">>)>>
      [] style = "joined" -> <<Txt(<<"F","r","a","m","e"," ","a","n","d"," ","T","i","m","e"," ","(","s",")">>), Empty, Txt(<<"X">>)>>
      [] style = "upper"  -> <<Whole(0), Txt(<<"T","I","M","E">>), Txt(<<"F","R","A","M","E">>)>>
LayoutGrid(n, a, last, style) ==
    [i \in 1..n |->
        IF i = a \/ (last /\ i = n) THEN HeaderLine(style)
        ELSE IF i % 2 = 1 THEN <<Txt(<<"F","r","a","m","e">>), Empty, Whole(i)>>
        ELSE <<Empty, Txt(<<"t","i","m","e">>), Num(i)>>]

\* process_single_qtm entered for one file of such a layout, with the start
\* command of its trial selected.
InitLayout ==
    /\ \E n \in {3} \cup ((MAX_SEARCH_ROW - 1)..MaxLayoutRows) : \E a \in 0..n :
       \E last \in BOOLEAN : \E style \in HeaderStyles :
          QTM_FOLDER = [exists |-> TRUE,
                        files |-> {CaptureFile(CaptureName(Reach, 1, S001), TRUE,
                                               LayoutGrid(n, a, last, style))}]
    /\ LOG_FILE = [readable |-> TRUE, columns |-> LOG_COLUMNS, rows |-> <<AnchorRow>>]
    /\ MAX_MATCH_SECONDS = Some(DEFAULT_MAX_MATCH_MS * TicksPerMs)
    /\ OUTPUT_FOLDER = "TimeMatched"
    /\ run = 1
    /\ previous = NoRun
    /\ pc = "open"
    /\ log_df_filtered = <<AnchorRow>>
    /\ queue = <<>>
    /\ fname = CaptureName(Reach, 1, S001)
    /\ trial_events = <<AnchorRow>>
    /\ ws = <<>>
    /\ header_row = 0
    /\ time_col = None
    /\ start_time = 0
    /\ r = 0
    /\ row_to_global = <<>>
    /\ ev_list = <<>>
    /\ ev_i = 1
    /\ matches = <<>>
    /\ outputs = {}
    /\ diagnostics = <<>>
    /\ status = [n \in FileNames |-> "Filtered"]
    /\ RecorderOff

\* Task names and subject ids as the recorder may hold them, with
\* underscores, spaces, hyphens, dots and digits, and one that ends like an
\* output name; the empty text and a text that itself holds a trial marker
\* stand for what the recorder does not produce.
NameTexts ==
    { Reach, S001,
      <<"F","i","n","g","e","r","_","T","a","p">>,
      <<"p","e","g"," ","b","o","a","r","d">>,
      <<"P","i","c","k","-","P","l","a","c","e">>,
      <<"7">>,
      <<"S",".","1">>,
      <<"T","r","i","a","l","3">>,
      <<"P","r","e","_","t","r","i","a","l">>,
      <<"S","2","_","s","y","n","c","e","d">>,
      <<>>,
      <<"A","_","T","r","i","a","l","2","_","B">> }
TrialSpellings == {<<"_","T","r","i","a","l">>, <<"_","T","R","I","A","L">>, <<"_","t","r","i","a","l">>}
MaxTrial == 10
TrialNumbers == {0, 1, MaxTrial}

\* One recording: the log row the recorder appended for its start command,
\* and the capture file exported under the measurement name, the word Trial
\* in some letter case.
InitNames ==
    /\ \E task \in NameTexts : \E subject \in NameTexts : \E n \in TrialNumbers :
       \E sp \in TrialSpellings :
          /\ LOG_FILE = [readable |-> TRUE, columns |-> LOG_COLUMNS,
                         rows |-> <<LogRow(subject, task, Whole(n), Stamp(T0), StartCommand)>>]
          /\ QTM_FOLDER = [exists |-> TRUE,
                           files |-> {CaptureFile(task \o sp \o DecText(n) \o <<"_">> \o subject
                                                    \o <<".","x","l","s","x">>, TRUE, GridPlain)}]
    /\ MAX_MATCH_SECONDS = Some(DEFAULT_MAX_MATCH_MS * TicksPerMs)
    /\ OUTPUT_FOLDER = "TimeMatched"
    /\ InitLocals
    /\ RecorderOff

Init ==
    /\ InitMatch \/ InitBatch \/ InitFatal
    /\ OUTPUT_FOLDER = "TimeMatched"
    /\ InitLocals
    /\ RecorderOff

\* The batches and the fatal cases, the outputs saved either apart or into
\* the capture folder.
InitRerun ==
    /\ InitBatch \/ InitFatal
    /\ OUTPUT_FOLDER \in {"TimeMatched", "QTM_FOLDER"}
    /\ InitLocals
    /\ RecorderOff

Next ==
    \/ LoadLog \/ ListFolder
    \/ ScanSkip \/ SkipUnparsable \/ SkipNoEvents \/ StartFile \/ EndBatch
    \/ LoadWorkbookRaises \/ OpenWorkbook
    \/ AnchorMissing \/ AnchorUnparsable \/ AnchorFound
    \/ IndexRowSkip \/ IndexRowRaises \/ IndexRowWrite \/ IndexEmpty \/ BuildEventList
    \/ MatchEvent \/ Save

Spec == Init /\ [][Next]_vars

\* The script on the inputs above and on logs with timestamps that are
\* missing or no time and start commands under other labels.
InitLogs ==
    /\ InitMatch \/ InitBatch \/ InitFatal \/ InitStamps
    /\ OUTPUT_FOLDER = "TimeMatched"
    /\ InitLocals
    /\ RecorderOff
SpecLogs == InitLogs /\ [][Next]_vars

\* The script run, and run again on what the run before left.
NextRerun == Next \/ RunAgain
SpecRerun == InitRerun /\ [][NextRerun]_vars

\* The header search alone: the first step of process_single_qtm on each
\* layout.
SpecLayout == InitLayout /\ [][OpenWorkbook]_vars

\* The scan of main() alone: each name of the folder is parsed and its
\* events selected; process_single_qtm is entered and not followed.
NextNames ==
    \/ LoadLog
    \/ ListFolder
    \/ ScanSkip
    \/ SkipUnparsable
    \/ SkipNoEvents
    \/ StartFile
SpecNames == InitNames /\ [][NextNames]_vars

(***************************************************************************)
(* src/taskandtrial.py: the trial controller with tasks and subjects       *)
(***************************************************************************)
\* Bounds: clicks on Start Trial, buttons connected, lines the serial reader
\* receives, answers to the Hand Used dialog.
MaxTaskClicks == 2
MaxTaskButtons == 1
MaxSerialLines == 2
MaxStops == 1
\* The operator stops clicking, and the buttons stop sending, once the log
\* has this many entries.
MaxLogEntries == 4

\* What build_gui fixes before any button can be clicked: the subject, and
\* the one task of the session, which uses the buttons exactly if the
\* number of buttons was asked for.
subject_id == Txt(S001)
task_name == Txt(Reach)
uses_arduino == num_buttons > 0

\* What the controller's handlers leave alone: the script's state, but for
\* the sheet, which export_to_excel writes.
outside_gui == <<run, previous, LOG_FILE, QTM_FOLDER, OUTPUT_FOLDER, MAX_MATCH_SECONDS, pc,
                 log_df_filtered, queue, fname, trial_events, header_row, time_col,
                 start_time, r, row_to_global, ev_list, ev_i, matches, outputs,
                 diagnostics, status, beep_threads, clock>>

\* The window is open until End & Save has exported the log.
WindowOpen == ws = <<>>

\* current_button as an element of a log entry.
ButtonCell == IF current_button.ok THEN Whole(current_button.v) ELSE Empty

\* now_central().strftime('%H:%M:%S.%f')[:-3]: the controller's clock is not
\* followed here, every entry carries the same instant.
NowStamp == Stamp(T0)

\* The tuples of eight elements that start_recording_and_trial and
\* read_serial append: the subject is the eighth.
EightTuple(trial, button, event, duration) ==
    <<Whole(trial), task_name, button, NowStamp, Txt(event), duration, uses_arduino, subject_id>>
\* The tuple of nine elements that ask_hand_used appends: the hand is the
\* eighth, the subject the ninth.
NineTuple(trial, event, chosen_hand) ==
    <<Whole(trial), task_name, Empty, NowStamp, Txt(event), Empty, uses_arduino,
      Txt(chosen_hand), subject_id>>

\* f"LED_{current_button}_Lit", f"#{button} - pressed", f"#{button} - released"
LedLitText(b) == <<"L","E","D","_">> \o DecText(b) \o <<"_","L","i","t">>
PressedText(b) == <<"#">> \o DecText(b) \o <<" ","-"," ","p","r","e","s","s","e","d">>
ReleasedText(b) == <<"#">> \o DecText(b) \o <<" ","-"," ","r","e","l","e","a","s","e","d">>

\* on_start_button, and start_recording_and_trial up to its first await
\* (lines 235-249).
TaskStartClicked ==
    /\ WindowOpen
    /\ Len(coroutines) < MaxTaskClicks
    /\ Len(event_log) < MaxLogEntries
    /\ trial_number' = trial_number + 1
    /\ event_log' = Append(event_log, EightTuple(trial_number + 1, Empty, StartCommand, Empty))
    /\ coroutines' = Append(coroutines, [pc |-> "start_qtm", trial |-> trial_number + 1,
                                         qtm |-> "pending"])
    /\ UNCHANGED <<num_buttons, button_pool, current_button, qtm_connection, arduino, ws,
                   outside_gui>>

\* How a call of start_qtm_recording can end: the recording runs, or one of
\* its three awaits has failed.
QtmOutcomes == {"recording", "connect_failed", "take_control_failed", "start_failed"}

\* qtm_connection after start_qtm_recording (lines 84-95): only a connection
\* that was not made leaves it None; the handler of the exception does not
\* reset it.
start_qtm_recording(conn, i, outcome) ==
    IF conn.ok THEN conn
    ELSE IF outcome = "connect_failed" THEN None
    ELSE Some(i)

\* await start_qtm_recording() and what follows it up to the sleep (lines
\* 252-264).
StartQtmReturns(i, outcome) ==
    LET conn == start_qtm_recording(qtm_connection, i, outcome)
        me == coroutines[i]
    IN  /\ WindowOpen
        /\ me.pc = "start_qtm"
        \* With a connection kept from an earlier trial only start() is awaited.
        /\ qtm_connection.ok => outcome \in {"recording", "start_failed"}
        /\ qtm_connection' = conn
        /\ IF ~conn.ok
           THEN /\ coroutines' = [coroutines EXCEPT ![i] = [me EXCEPT !.pc = "returned",
                                                                      !.qtm = outcome]]
                /\ UNCHANGED event_log
           ELSE /\ event_log' = Append(event_log,
                                       EightTuple(me.trial, Empty, RecordingStarted, Empty))
                /\ coroutines' = [coroutines EXCEPT ![i] = [me EXCEPT !.pc = "sleep",
                                                                      !.qtm = outcome]]
        /\ UNCHANGED <<num_buttons, button_pool, current_button, trial_number, arduino, ws,
                       outside_gui>>
StartQtmRecording ==
    \E i \in 1..Len(coroutines) : \E outcome \in QtmOutcomes : StartQtmReturns(i, outcome)

\* The sleep of half a second is over, the thread is started (line 294) and
\* runs play_beep_and_led (lines 267-291).
PlayBeepAndLedOf(i) ==
    LET me == coroutines[i]
        beep == EightTuple(me.trial, Empty, BeepStarted, Empty)
    IN  /\ WindowOpen
        /\ me.pc = "sleep"
        /\ coroutines' = [coroutines EXCEPT ![i].pc = "returned"]
        /\ IF uses_arduino /\ button_pool # <<>>
           THEN \E k \in 1..Len(button_pool) :
                    LET b == button_pool[k]
                    IN  /\ current_button' = Some(b)
                        /\ button_pool' = Remove(button_pool, b)
                        /\ arduino' = Append(arduino, LedOnCommand(b))
                        /\ event_log' = event_log \o
                                <<beep, EightTuple(me.trial, Whole(b), LedLitText(b), Empty)>>
           ELSE /\ event_log' = Append(event_log, beep)
                /\ UNCHANGED <<button_pool, current_button, arduino>>
        /\ UNCHANGED <<num_buttons, trial_number, qtm_connection, ws, outside_gui>>
play_beep_and_led == \E i \in 1..Len(coroutines) : PlayBeepAndLedOf(i)

\* on_reset_button: reset_qtm (lines 126-139) drops the connection.
ResetClicked ==
    /\ WindowOpen
    /\ qtm_connection.ok
    /\ qtm_connection' = None
    /\ UNCHANGED <<num_buttons, button_pool, current_button, trial_number, event_log,
                   arduino, coroutines, ws, outside_gui>>

HandAnswers == {<<"L","e","f","t">>, <<"R","i","g","h","t">>, <<"N","/","A">>}
EventsNamed(event) == {k \in 1..Len(event_log) : event_log[k][5] = Txt(event)}

\* on_stop_trial_button and the dialog it opens (lines 301-308, 153-185).
StopTrialClicked ==
    /\ WindowOpen
    /\ Cardinality(EventsNamed(HandUsed)) < MaxStops
    /\ Len(event_log) < MaxLogEntries
    /\ \E chosen_hand \in HandAnswers :
           event_log' = Append(event_log, NineTuple(trial_number, HandUsed, chosen_hand))
    /\ UNCHANGED <<num_buttons, button_pool, current_button, trial_number, qtm_connection,
                   arduino, coroutines, ws, outside_gui>>

\* button in press_times: the button was pressed and not released since.
InPressTimes(b) ==
    \E p \in EventsNamed(PressedText(b)) : \A q \in EventsNamed(ReleasedText(b)) : q < p
SerialLines ==
    Cardinality(UNION {EventsNamed(PressedText(b)) \cup EventsNamed(ReleasedText(b)) :
                       b \in 1..MaxTaskButtons})

\* f"LED_{current_button}_OFF\n"
LedOffCommand(b) == <<"L","E","D","_">> \o DecText(b) \o <<"_","O","F","F","\n">>

\* read_serial on a line "button_b_pressed ms" (lines 205-215).
SerialPressed ==
    \E b \in 1..num_buttons :
        /\ WindowOpen
        /\ SerialLines < MaxSerialLines
        /\ Len(event_log) < MaxLogEntries
        /\ event_log' = Append(event_log,
                               EightTuple(trial_number, ButtonCell, PressedText(b), Empty))
        /\ arduino' = IF current_button.ok
                      THEN Append(arduino, LedOffCommand(current_button.v))
                      ELSE arduino
        /\ UNCHANGED <<num_buttons, button_pool, current_button, trial_number,
                       qtm_connection, coroutines, ws, outside_gui>>

\* read_serial on a line "button_b_released ms" (lines 217-226); the press
\* lasted a quarter of a second.
SerialReleased ==
    \E b \in 1..num_buttons :
        /\ WindowOpen
        /\ InPressTimes(b)
        /\ SerialLines < MaxSerialLines
        /\ Len(event_log) < MaxLogEntries
        /\ event_log' = Append(event_log,
                               EightTuple(trial_number, ButtonCell, ReleasedText(b), Whole(250)))
        /\ UNCHANGED <<num_buttons, button_pool, current_button, trial_number,
                       qtm_connection, arduino, coroutines, ws, outside_gui>>

\* The row export_to_excel writes for one entry of the log (lines 343-365):
\* columns A to I; a cell that is not written stays empty.
ExportRow(entry) ==
    LET hand_used == IF Len(entry) = 7 THEN Empty ELSE entry[8]
        sid == IF Len(entry) \in {7, 8} THEN subject_id ELSE entry[9]
    IN  <<entry[1], entry[2],
          Txt(IF entry[7] THEN <<"Y","e","s">> ELSE <<"N","o">>),
          entry[3], entry[4], entry[5], entry[6], hand_used, sid>>

\* The sheet "Trials": the header of line 332-340 and one row per entry.
export_to_excel(log) ==
    <<[c \in 1..Len(LOG_COLUMNS) |-> Txt(LOG_COLUMNS[c])]>> \o
        [k \in 1..Len(log) |-> ExportRow(log[k])]

\* on_end_button (lines 317-320): the log is exported and the window is
\* closed; with an empty log there is only a warning.
EndAndSave ==
    /\ WindowOpen
    /\ event_log # <<>>
    /\ ws' = export_to_excel(event_log)
    /\ UNCHANGED <<num_buttons, button_pool, current_button, trial_number, qtm_connection,
                   event_log, arduino, coroutines, outside_gui>>

InitTask ==
    /\ num_buttons \in 0..MaxTaskButtons
    /\ button_pool = [b \in 1..num_buttons |-> b]
    /\ current_button = None
    /\ trial_number = 0
    /\ qtm_connection = None
    /\ event_log = <<>>
    /\ arduino = <<>>
    /\ coroutines = <<>>
    /\ beep_threads = 0
    /\ clock = 0
    /\ LOG_FILE = [readable |-> FALSE, columns |-> <<>>, rows |-> <<>>]
    /\ QTM_FOLDER = [exists |-> FALSE, files |-> {}]
    /\ OUTPUT_FOLDER = "TimeMatched"
    /\ MAX_MATCH_SECONDS = Some(DEFAULT_MAX_MATCH_MS * TicksPerMs)
    /\ run = 1
    /\ previous = NoRun
    /\ pc = "start"
    /\ log_df_filtered = <<>>
    /\ queue = <<>>
    /\ fname = <<>>
    /\ trial_events = <<>>
    /\ ws = <<>>
    /\ header_row = 0
    /\ time_col = None
    /\ start_time = 0
    /\ r = 0
    /\ row_to_global = <<>>
    /\ ev_list = <<>>
    /\ ev_i = 1
    /\ matches = <<>>
    /\ outputs = {}
    /\ diagnostics = <<>>
    /\ status = <<>>

NextTask ==
    \/ TaskStartClicked
    \/ StartQtmRecording
    \/ play_beep_and_led
    \/ ResetClicked
    \/ StopTrialClicked
    \/ SerialPressed
    \/ SerialReleased
    \/ EndAndSave

SpecTask == InitTask /\ [][NextTask]_vars

(***************************************************************************)
(* Properties                                                              *)
(***************************************************************************)
\* |a - b|
Dist(a, b) == IF a >= b THEN a - b ELSE b - a

\* The printed lines that name file f, and the saved file made from f.
DiagsOf(f) == SelectSeq(diagnostics, LAMBDA d : d.file = f)
SyncedName(f) == SubSeq(f, 1, Len(f) - 5) \o <<"_","s","y","n","c","e","d",".","x","l","s","x">>
HasOutput(f) == \E o \in outputs : o.name = SyncedName(f)

\* The locals of process_single_qtm are those of file fname from the moment
\* its sheet is annotated.
Indexing == status[fname] \in {"Anchored", "FrameIndexed", "Saved"}
Matching == status[fname] \in {"FrameIndexed", "Saved"}

\* The labels matched to a row so far, in the order of the matching loop.
LabelsAt(row) ==
    LET hits == SelectSeq(matches, LAMBDA m : m.row = row)
    IN  [i \in 1..Len(hits) |-> hits[i].name]

\* labels joined by " | "
RECURSIVE JoinBar(_)
JoinBar(labels) ==
    IF Len(labels) = 1 THEN labels[1]
    ELSE JoinBar(SubSeq(labels, 1, Len(labels) - 1)) \o <<" ","|"," ">> \o labels[Len(labels)]

\* The millisecond of the day that a text HH:MM:SS.mmm denotes (-1: no such text).
ClockTextMs(s) ==
    IF /\ Len(s) = 12 /\ s[3] = ":" /\ s[6] = ":" /\ s[9] = "."
       /\ \A i \in {1, 2, 4, 5, 7, 8, 10, 11, 12} : IsDigit(s[i])
    THEN ((DecValue(SubSeq(s, 1, 2)) * 60 + DecValue(SubSeq(s, 4, 5))) * 60
          + DecValue(SubSeq(s, 7, 8))) * 1000 + DecValue(SubSeq(s, 10, 12))
    ELSE -1

\* C1: every event the matching loop has handled (each event of interest
\* whose timestamp parsed, in order) went to a row of the frame index whose
\* time difference no indexed row undercuts, the lowest row among those at
\* that difference; the difference recorded is that of the row and is >= 0;
\* the label stands in that row's Event cell.
C1_NearestFrame ==
    (fname # <<>> /\ Matching) =>
        /\ Len(matches) = ev_i - 1
        /\ \A k \in 1..Len(matches) :
              LET m == matches[k]
              IN  /\ m.name = ev_list[k].name /\ m.t = ev_list[k].t
                  /\ m.diff >= 0
                  /\ \E i \in 1..Len(row_to_global) :
                        /\ row_to_global[i].row = m.row
                        /\ Dist(row_to_global[i].t, m.t) = m.diff
                  /\ \A j \in 1..Len(row_to_global) :
                        /\ Dist(row_to_global[j].t, m.t) >= m.diff
                        /\ Dist(row_to_global[j].t, m.t) = m.diff
                              => row_to_global[j].row >= m.row
                  /\ Contains(CellStr(CellValue(ws, m.row, EVENT_COL)), m.name)

\* C1 witness: an event at equal distance from two indexed frames went to
\* the lower row.
C1_Witness ==
    /\ fname # <<>> /\ Matching
    /\ \E k \in 1..Len(matches) : \E i, j \in 1..Len(row_to_global) :
          /\ row_to_global[i].row < row_to_global[j].row
          /\ Dist(row_to_global[i].t, matches[k].t) = matches[k].diff
          /\ Dist(row_to_global[j].t, matches[k].t) = matches[k].diff
          /\ matches[k].diff > 0
          /\ matches[k].row = row_to_global[i].row

\* C2: every data row the indexing loop has passed whose frame-time cell
\* parses to an offset has the frame-index entry anchor + offset, and its
\* Global Time Synced cell is the text HH:MM:SS.mmm of that instant's time
\* of day, cut to the millisecond; with the anchor at 14:00:00.000 the
\* offsets 0.000, 0.500 and 1.000 give 14:00:00.000, 14:00:00.500 and
\* 14:00:01.000.
C2_ReconstructedTime ==
    (fname # <<>> /\ Indexing) =>
        \A q \in (header_row + DATA_ROW_OFFSET)..max_row(ws) :
            LET secs == parse_seconds_from_qtm_time(CellValue(ws, q, time_col.v))
                text == CellValue(ws, q, GLOBAL_TIME_COL)
            IN  (q < r /\ secs.k = "num") =>
                    /\ \E i \in 1..Len(row_to_global) :
                          /\ row_to_global[i].row = q
                          /\ row_to_global[i].t = start_time + secs.v
                    /\ text.k = "str"
                    /\ ClockTextMs(text.s)
                         = ((start_time + secs.v) % TicksPerDay) \div TicksPerMs
                    /\ (start_time = At(14, 0, 0, 0) /\ secs.v = 0)
                          => text.s = <<"1","4",":","0","0",":","0","0",".","0","0","0">>
                    /\ (start_time = At(14, 0, 0, 0) /\ secs.v = 500 * TicksPerMs)
                          => text.s = <<"1","4",":","0","0",":","0","0",".","5","0","0">>
                    /\ (start_time = At(14, 0, 0, 0) /\ secs.v = 1000 * TicksPerMs)
                          => text.s = <<"1","4",":","0","0",":","0","1",".","0","0","0">>

\* C2 witness: the three frames of the example are indexed and written.
C2_Witness ==
    /\ fname # <<>> /\ Indexing /\ start_time = At(14, 0, 0, 0)
    /\ Len(row_to_global) = 3
    /\ row_to_global[1].t = At(14, 0, 0, 0)
    /\ row_to_global[2].t = At(14, 0, 0, 500)
    /\ row_to_global[3].t = At(14, 0, 1, 0)
    /\ CellValue(ws, row_to_global[1].row, GLOBAL_TIME_COL).s = <<"1","4",":","0","0",":","0","0",".","0","0","0">>
    /\ CellValue(ws, row_to_global[2].row, GLOBAL_TIME_COL).s = <<"1","4",":","0","0",":","0","0",".","5","0","0">>
    /\ CellValue(ws, row_to_global[3].row, GLOBAL_TIME_COL).s = <<"1","4",":","0","0",":","0","1",".","0","0","0">>

\* The row belongs to the TrialKey of file f: the subject and the task of the
\* name, lowercased and stripped, and its trial number.
OwnTrialRow(row, f) ==
    LET key == parse_qtm_filename(f)
    IN  /\ Lower(Strip(row.subject)) = Lower(Strip(key.subject))
        /\ Lower(Strip(row.task)) = Lower(Strip(key.task))
        /\ TrialFloat(row.trial) = FNum(key.trial * TicksPerSec)

\* C3: the rows selected for a file are rows of the file's own TrialKey, so
\* that no row of trial 10 is selected (and later written) for a Trial1
\* file.
C3_OnlyOwnTrialKey ==
    \A i \in 1..Len(trial_events) : OwnTrialRow(trial_events[i], fname)

\* The least difference between the instant t and the frames of the index.
LeastDiff(t) ==
    CHOOSE d \in {Dist(row_to_global[i].t, t) : i \in 1..Len(row_to_global)} :
        \A j \in 1..Len(row_to_global) : Dist(row_to_global[j].t, t) >= d

\* C4: an event the matching loop has handled whose least difference to the
\* frame index exceeds a configured tolerance has its label in the Event
\* cell of a frame at that least difference all the same, the file goes on
\* to be saved with it, and an event at 14:00:02.200 against frames that end
\* at 14:00:01.000 stands on the 1.000 frame with a difference of 1.2 s.
C4_DriftStillRecorded ==
    (fname # <<>> /\ Matching) =>
        /\ \A k \in 1..(ev_i - 1) :
              LET ev == ev_list[k]
                  d  == LeastDiff(ev.t)
              IN  /\ (MAX_MATCH_SECONDS.ok /\ d > MAX_MATCH_SECONDS.v) =>
                        \E i \in 1..Len(row_to_global) :
                            /\ Dist(row_to_global[i].t, ev.t) = d
                            /\ Contains(CellStr(CellValue(ws, row_to_global[i].row,
                                                         EVENT_COL)), ev.name)
                  /\ ( /\ ev.t = At(14, 0, 2, 200)
                       /\ \A i \in 1..Len(row_to_global) :
                             row_to_global[i].t <= At(14, 0, 1, 0)
                       /\ \E i \in 1..Len(row_to_global) :
                             row_to_global[i].t = At(14, 0, 1, 0) ) =>
                        /\ d = 1200 * TicksPerMs
                        /\ \E i \in 1..Len(row_to_global) :
                              /\ row_to_global[i].t = At(14, 0, 1, 0)
                              /\ Contains(CellStr(CellValue(ws, row_to_global[i].row,
                                                           EVENT_COL)), ev.name)
        /\ (pc = "match" /\ ev_i > Len(ev_list)) => ENABLED Save
        /\ status[fname] = "Saved" =>
              [name |-> SyncedName(fname), ws |-> ws] \in outputs

\* C4 witness: the event of the example, 1.2 s from the last frame with a
\* tolerance of 0.5 s, is in the saved sheet on that frame.
C4_Witness ==
    /\ fname # <<>> /\ status[fname] = "Saved"
    /\ MAX_MATCH_SECONDS = Some(500 * TicksPerMs)
    /\ \E k \in 1..Len(ev_list) : \E i \in 1..Len(row_to_global) :
          /\ ev_list[k].t = At(14, 0, 2, 200)
          /\ row_to_global[i].t = At(14, 0, 1, 0)
          /\ LeastDiff(ev_list[k].t) = 1200 * TicksPerMs
          /\ \E o \in outputs :
                Contains(CellStr(CellValue(o.ws, row_to_global[i].row, EVENT_COL)),
                         ev_list[k].name)

\* C5: the drift warnings printed for the file are, in order, exactly the
\* matches whose difference is greater than the configured tolerance (a
\* difference equal to it prints none); with no tolerance configured no
\* warning is printed at all.
C5_DriftWarning ==
    (fname # <<>> /\ Matching) =>
        LET drifts == SelectSeq(diagnostics,
                                LAMBDA d : d.kind = "drift" /\ d.file = fname)
            over   == SelectSeq(matches,
                                LAMBDA m : /\ MAX_MATCH_SECONDS # None
                                           /\ m.diff > MAX_MATCH_SECONDS.v)
        IN  /\ Len(drifts) = Len(over)
            /\ \A i \in 1..Len(drifts) :
                  /\ drifts[i].ev = over[i].name
                  /\ drifts[i].row = over[i].row
                  /\ drifts[i].diff = over[i].diff
            /\ MAX_MATCH_SECONDS = None =>
                  \A i \in 1..Len(diagnostics) : diagnostics[i].kind # "drift"

\* C5 witness: of two matches, the one exactly at the tolerance printed no
\* warning and the one beyond it printed one.
C5_Witness ==
    /\ fname # <<>> /\ Matching /\ MAX_MATCH_SECONDS # None
    /\ \E j, k \in 1..Len(matches) :
          /\ matches[j].diff = MAX_MATCH_SECONDS.v
          /\ matches[k].diff > MAX_MATCH_SECONDS.v
          /\ \A i \in 1..Len(diagnostics) :
                diagnostics[i].kind = "drift" => diagnostics[i].ev # matches[j].name
          /\ \E i \in 1..Len(diagnostics) :
                diagnostics[i].kind = "drift" /\ diagnostics[i].ev = matches[k].name

\* The events of interest of the file whose timestamps parse, in log order.
DueEvents ==
    SelectSeq(trial_events,
              LAMBDA row : /\ matches_event_name(row.event)
                           /\ safe_to_datetime(row.timestamp).ok)

\* C6: every Event cell below or above the header holds the labels matched
\* to its row joined by " | " in the order of the log, and is empty when
\* none was; the labels are those of the events of interest with a parsed
\* timestamp, one each, all of them once the file is saved.
C6_LabelsAccumulate ==
    (fname # <<>> /\ Matching) =>
        /\ \A row \in 1..max_row(ws) :
              row # header_row =>
                  CellValue(ws, row, EVENT_COL)
                    = IF LabelsAt(row) = <<>> THEN Empty
                      ELSE Txt(JoinBar(LabelsAt(row)))
        /\ \A k \in 1..Len(matches) : matches[k].row \in 1..max_row(ws)
        /\ Len(matches) = ev_i - 1
        /\ Len(matches) <= Len(DueEvents)
        /\ \A k \in 1..Len(matches) : matches[k].name = DueEvents[k].event
        /\ status[fname] = "Saved" =>
              /\ Len(matches) = Len(DueEvents)
              /\ \E o \in outputs : o.name = SyncedName(fname) /\ o.ws = ws

\* C6 witness: a saved sheet in which two different labels share one cell.
C6_Witness ==
    /\ fname # <<>> /\ status[fname] = "Saved"
    /\ \E row \in 1..max_row(ws) :
          /\ Len(LabelsAt(row)) = 2
          /\ LabelsAt(row)[1] # LabelsAt(row)[2]
          /\ CellValue(ws, row, EVENT_COL)
               = Txt(LabelsAt(row)[1] \o <<" ","|"," ">> \o LabelsAt(row)[2])

\* What main() and process_single_qtm decide about file f, read off the
\* inputs.
Visited(f) == status[f] # "Discovered"
Malformed(f) == AcceptedByScan(f) /\ ~parse_qtm_filename(f).ok
Selected(f) == SelectTrialEvents(log_df_filtered, parse_qtm_filename(f))
AnchorRowsIn(sel) == SelectSeq(sel, LAMBDA row : ContainsStartCommand(row.event))
AnchorlessIn(sel) ==
    \/ AnchorRowsIn(sel) = <<>>
    \/ ~safe_to_datetime(AnchorRowsIn(sel)[1].timestamp).ok

\* A file nothing is wrong with: a name that parses, events in the log with
\* a start command whose timestamp parses, a workbook that opens, a time
\* column, and frame-time cells of which some parse and none is infinite.
WellFormed(f) ==
    /\ AcceptedByScan(f) /\ parse_qtm_filename(f).ok
    /\ FileNamed(f).readable
    /\ LET sel == Selected(f) IN sel # <<>> /\ ~AnchorlessIn(sel)
    /\ LET hr    == find_header_row(FileNamed(f).grid)
           sheet == AnnotatedSheet(FileNamed(f).grid, hr)
           tc    == find_col_by_keyword(sheet, hr, <<"t","i","m","e">>)
           secs(q) == parse_seconds_from_qtm_time(CellValue(sheet, q, tc.v))
       IN  /\ tc.ok
           /\ \E q \in (hr + DATA_ROW_OFFSET)..max_row(sheet) : secs(q).k = "num"
           /\ \A q \in (hr + DATA_ROW_OFFSET)..max_row(sheet) : secs(q).k # "inf"

\* C7: an input file whose name does not parse is skipped with one printed
\* line and no output; main() is stopped only by a file that is faulty in
\* some other way, never by such a name; and when main() returns every
\* well-formed file, before or after the skipped one in scan order, is saved.
C7_UnparsableNameSkipsOnlyThatFile ==
    /\ \A f \in FileNames :
          (Visited(f) /\ Malformed(f)) =>
              /\ status[f] = "SkipName"
              /\ Len(DiagsOf(f)) = 1
              /\ DiagsOf(f)[1].kind = "unparsable_filename"
              /\ ~HasOutput(f)
    /\ pc = "crashed" =>
          \E g \in FileNames : AcceptedByScan(g) /\ ~Malformed(g) /\ ~WellFormed(g)
    /\ pc = "done" =>
          \A g \in FileNames :
              WellFormed(g) => status[g] = "Saved" /\ HasOutput(g)

\* C7 witness: main() has returned, having skipped a name that does not
\* parse and then saved a well-formed file that sorts after it.
C7_Witness ==
    /\ pc = "done"
    /\ \E f, g \in FileNames :
          /\ Malformed(f) /\ status[f] = "SkipName"
          /\ TextLess(f, g)
          /\ WellFormed(g) /\ status[g] = "Saved" /\ HasOutput(g)

\* C8: a failure inside one file (a workbook that does not open, arithmetic
\* that raises) leaves no later input file unprocessed.
C8_FailureDoesNotAbortBatch ==
    pc = "crashed" => \A i \in 1..Len(queue) : ~AcceptedByScan(queue[i])

\* C9: a visited file whose name parses and for which no log row is
\* selected is skipped: one printed line, no output, process_single_qtm is
\* not called on it, and the loop goes on.
C9_NoEventsSkipsFile ==
    \A f \in FileNames :
        ( /\ Visited(f) /\ AcceptedByScan(f) /\ parse_qtm_filename(f).ok
          /\ Selected(f) = <<>> ) =>
            /\ status[f] = "SkipNoEvents"
            /\ Len(DiagsOf(f)) = 1
            /\ DiagsOf(f)[1].kind = "no_events"
            /\ ~HasOutput(f)
            /\ fname # f
            /\ pc # "crashed" \/ status[fname] = "Failed"

\* C9 witness: main() has returned, having skipped a file without events and
\* then saved a file that sorts after it.
C9_Witness ==
    /\ pc = "done"
    /\ \E f, g \in FileNames :
          /\ parse_qtm_filename(f).ok /\ Selected(f) = <<>>
          /\ status[f] = "SkipNoEvents"
          /\ TextLess(f, g) /\ status[g] = "Saved" /\ HasOutput(g)

HeaderNamesTime(grid) ==
    find_col_by_keyword(grid, find_header_row(grid), <<"t","i","m","e">>).ok

\* C11: a file whose workbook opened and whose header row names no time
\* column takes the missing-time-column skip, with its one printed line, and
\* gets no further (no anchor lookup, no frame index).
C11_MissingTimeColumnSkips ==
    \A f \in FileNames :
        ( /\ status[f] \notin {"Discovered", "NotInput", "SkipName", "SkipNoEvents",
                               "Filtered"}
          /\ FileNamed(f).readable
          /\ ~HeaderNamesTime(FileNamed(f).grid) ) =>
            /\ status[f] = "SkipNoTimeColumn"
            /\ Len(DiagsOf(f)) = 1
            /\ DiagsOf(f)[1].kind = "no_time_column"

\* Some cell of row q of the export, lower-cased, contains the word.
RowNames(grid, q, word) ==
    \E c \in 1..Len(grid[q]) :
        grid[q][c].k # "none" /\ Contains(Lower(CellStr(grid[q][c])), word)
HeaderLike(grid, q) == RowNames(grid, q, <<"f","r","a","m","e">>) /\ RowNames(grid, q, <<"t","i","m","e">>)
SearchLimit(grid) == IF Len(grid) < 12 THEN Len(grid) ELSE 12

\* C12: the header row found for an export is the lowest of its first
\* min(12, rows) rows that holds both words, in whatever cells and letter
\* case; it is 4 when none of those rows does; a row past the twelfth is
\* never the result of the search.
C12_HeaderRow ==
    (pc # "open" /\ fname # <<>> /\ status[fname] = "LayoutDetected") =>
        LET grid == FileNamed(fname).grid
        IN  IF \E q \in 1..SearchLimit(grid) : HeaderLike(grid, q)
            THEN /\ header_row \in 1..SearchLimit(grid)
                 /\ HeaderLike(grid, header_row)
                 /\ \A q \in 1..(header_row - 1) : ~HeaderLike(grid, q)
            ELSE header_row = 4

\* C12 witness: the only row with both words is the thirteenth, and the
\* search fell back to row 4.
C12_Witness ==
    /\ pc # "open" /\ fname # <<>> /\ status[fname] = "LayoutDetected"
    /\ LET grid == FileNamed(fname).grid
       IN  /\ Len(grid) = 13
           /\ HeaderLike(grid, 13)
           /\ \A q \in 1..12 : ~HeaderLike(grid, q)
    /\ header_row = 4

\* The data rows the indexing loop has passed.
PassedRows == {q \in (header_row + DATA_ROW_OFFSET)..max_row(ws) : q < r}
\* What the loop read from row q: the offset of its frame-time cell.
SecsOf(q) == parse_seconds_from_qtm_time(CellValue(ws, q, time_col.v))

\* C13: every entry of the frame index belongs to a passed data row whose
\* frame-time cell gave an offset, and holds the instant anchor + offset; a
\* passed row whose frame-time cell is empty, unparsable or nan has no entry,
\* its Global Time Synced cell is still empty, and no event was matched to
\* it (its Event cell is empty too).
C13_FrameIndex ==
    (fname # <<>> /\ Indexing) =>
        /\ \A i \in 1..Len(row_to_global) :
              /\ row_to_global[i].row \in PassedRows
              /\ SecsOf(row_to_global[i].row).k = "num"
              /\ row_to_global[i].t = start_time + SecsOf(row_to_global[i].row).v
        /\ \A q \in PassedRows :
              SecsOf(q).k \in {"none", "nan"} =>
                  /\ \A i \in 1..Len(row_to_global) : row_to_global[i].row # q
                  /\ CellValue(ws, q, GLOBAL_TIME_COL) = Empty
                  /\ \A k \in 1..Len(matches) : matches[k].row # q
                  /\ CellValue(ws, q, EVENT_COL) = Empty

\* C13 witness: a saved file with an empty, a nan and an unparsable
\* frame-time cell, none of them indexed, and an event matched to another row.
C13_Witness ==
    /\ fname # <<>> /\ status[fname] = "Saved"
    /\ matches # <<>>
    /\ \E q1, q2, q3 \in PassedRows :
          /\ CellValue(ws, q1, time_col.v) = Empty
          /\ SecsOf(q2).k = "nan"
          /\ CellValue(ws, q3, time_col.v).k = "str" /\ SecsOf(q3).k = "none"
          /\ \A q \in {q1, q2, q3} : CellValue(ws, q, GLOBAL_TIME_COL) = Empty
    /\ \E o \in outputs : o.name = OutName(fname) /\ o.ws = ws

\* The text holds a trial marker of its own: _trial, in any letter case,
\* followed by a digit.
HasTrialMarker(s) ==
    \E i \in 1..Len(s) :
        /\ i + 6 <= Len(s)
        /\ Lower(SubSeq(s, i, i + 5)) = <<"_","t","r","i","a","l">>
        /\ IsDigit(s[i + 6])

\* The file is the export of the recording of this log row.
RecordedAs(f, row) ==
    \E sp \in {<<"_","T","r","i","a","l">>, <<"_","T","R","I","A","L">>, <<"_","t","r","i","a","l">>} :
        f = row.task \o sp \o DecText(row.trial.v \div TicksPerSec) \o <<"_">> \o row.subject
              \o <<".","x","l","s","x">>

\* C14: for a non-empty task and subject without a trial marker of their own
\* and a trial number N >= 1, the name <task>_Trial<N>_<subject>.xlsx, with
\* Trial in any letter case, parses to exactly (task, N, subject); the scan
\* then neither skips the file as unparsable nor finds no events for it: it
\* selects the recording's own row.
C14_FilenameRoundTrip ==
    \A f \in FileNames : \A i \in 1..Len(LOG_FILE.rows) :
        LET row == LOG_FILE.rows[i]
        IN  ( /\ RecordedAs(f, row)
              /\ row.task # <<>> /\ row.subject # <<>>
              /\ ~HasTrialMarker(row.task) /\ ~HasTrialMarker(row.subject)
              /\ row.trial.v >= TicksPerSec ) =>
                /\ parse_qtm_filename(f)
                     = Parsed(row.task, row.trial.v \div TicksPerSec, row.subject)
                /\ status[f] \notin {"SkipName", "SkipNoEvents"}
                /\ status[f] = "Filtered" => (fname = f /\ trial_events = <<row>>)

\* C14 witness: the recording of task Finger_Tap, trial 10, subject S.1,
\* exported with the marker in capitals, was parsed and its row selected.
C14_Witness ==
    /\ fname = <<"F","i","n","g","e","r","_","T","a","p","_","T","R","I","A","L","1","0","_","S",".","1",".","x","l","s","x">>
    /\ status[fname] = "Filtered"
    /\ Len(trial_events) = 1
    /\ trial_events[1].task = <<"F","i","n","g","e","r","_","T","a","p">>
    /\ trial_events[1].subject = <<"S",".","1">>
    /\ trial_events[1].trial = Whole(10)

\* C15: every name that parses has a trial number >= 1; a file whose trial
\* digits denote 0 is, once the scan has come to it, skipped as an
\* unparsable name.
C15_TrialPositive ==
    \A f \in FileNames :
        /\ parse_qtm_filename(f).ok => parse_qtm_filename(f).trial >= 1
        /\ ( /\ AcceptedByScan(f)
             /\ status[f] # "Discovered"
             /\ MainPattern(SplitExtBase(f)).ok
             /\ MainPattern(SplitExtBase(f)).trial = 0 ) => status[f] = "SkipName"

\* The annotation vocabulary, read off the label itself: trimmed, one of the
\* three milestone labels; or holding, in any letter case, LED_<digits>_Lit
\* or #<digits> - pressed (any white space around the hyphen).
IsLedLit(t) ==
    /\ Len(t) >= 9
    /\ SubSeq(t, 1, 4) = <<"l","e","d","_">>
    /\ SubSeq(t, Len(t) - 3, Len(t)) = <<"_","l","i","t">>
    /\ \A i \in 5..(Len(t) - 4) : IsDigit(t[i])
IsPressed(t) ==
    /\ Len(t) >= 10
    /\ t[1] = "#"
    /\ SubSeq(t, Len(t) - 6, Len(t)) = <<"p","r","e","s","s","e","d">>
    /\ \E h \in 3..(Len(t) - 7) :
          /\ t[h] = "-"
          /\ \E d \in 2..(h - 1) :
                /\ \A i \in 2..d : IsDigit(t[i])
                /\ \A i \in (d + 1)..(h - 1) : t[i] = " "
          /\ \A i \in (h + 1)..(Len(t) - 7) : t[i] = " "
InVocabulary(label) ==
    \/ Strip(label) \in {<<"Q","T","M"," ","S","t","a","r","t"," ","C","o","m","m","a","n","d"," ","S","e","n","t">>, <<"Q","T","M"," ","R","e","c","o","r","d","i","n","g"," ","S","t","a","r","t","e","d">>, <<"B","e","e","p"," ","S","t","a","r","t","e","d">>}
    \/ \E i \in 1..Len(label) : \E j \in i..Len(label) :
          LET t == Lower(SubSeq(label, i, j)) IN IsLedLit(t) \/ IsPressed(t)

\* The rows of the log with a label outside the vocabulary.
OutsideVocabulary == {i \in 1..Len(LOG_FILE.rows) : ~InVocabulary(LOG_FILE.rows[i].event)}

\* C16: every Event cell of the sheet being annotated is empty, the header
\* label, or the labels matched to its row joined by " | ", each of them in
\* the vocabulary; no label of the log outside the vocabulary stands in an
\* Event cell of the sheet or of any saved output.
C16_OnlyVocabularyWritten ==
    /\ (fname # <<>> /\ Matching) =>
          /\ \A k \in 1..Len(matches) : InVocabulary(matches[k].name)
          /\ \A q \in 1..max_row(ws) :
                LET cell == CellValue(ws, q, EVENT_COL)
                IN  IF q = header_row THEN cell = Txt(<<"E","v","e","n","t">>)
                    ELSE IF LabelsAt(q) = <<>> THEN cell = Empty
                    ELSE cell = Txt(JoinBar(LabelsAt(q)))
          /\ \A i \in OutsideVocabulary : \A q \in 1..max_row(ws) :
                ~Contains(CellStr(CellValue(ws, q, EVENT_COL)), LOG_FILE.rows[i].event)
    /\ \A o \in outputs : \A i \in OutsideVocabulary : \A q \in 1..max_row(o.ws) :
          ~Contains(CellStr(CellValue(o.ws, q, EVENT_COL)), LOG_FILE.rows[i].event)

\* C16 witness: the log of the trial holds a released label and a pressed
\* label; the saved output carries the pressed label and not the other.
C16_Witness ==
    /\ fname # <<>> /\ status[fname] = "Saved"
    /\ \E i \in OutsideVocabulary :
          /\ OwnTrialRow(LOG_FILE.rows[i], fname)
          /\ LOG_FILE.rows[i].event = Released
    /\ \E o \in outputs :
          /\ o.name = OutName(fname)
          /\ \E q \in 1..max_row(o.ws) : CellValue(o.ws, q, EVENT_COL) = Txt(PressedTight)

\* C17: every file written is <base name>_synced.xlsx of a capture file the
\* scan accepts; its name is the name of no file the scan accepts, in the
\* capture folder or among the files written, so that also with the outputs
\* saved into the capture folder each accepted capture file is on disk as it
\* was exported.
C17_OriginalNeverOverwritten ==
    /\ \A o \in outputs :
          /\ \E f \in FileNames :
                /\ AcceptedByScan(f)
                /\ o.name = SplitExtBase(f) \o <<"_","s","y","n","c","e","d",".","x","l","s","x">>
          /\ \A g \in FolderNames : AcceptedByScan(g) => g # o.name
    /\ \A f \in FileNames : AcceptedByScan(f) => OnDisk(f) = FileNamed(f)

\* C17 witness: in a second run with the outputs saved into the capture
\* folder, a file is processed and saved again, and the capture file on disk
\* is the export.
C17_Witness ==
    /\ OUTPUT_FOLDER = "QTM_FOLDER"
    /\ run = 2
    /\ fname # <<>> /\ status[fname] = "Saved"
    /\ \E o \in outputs : o.name = SplitExtBase(fname) \o <<"_","s","y","n","c","e","d",".","x","l","s","x">> /\ o.ws = ws
    /\ ws # FileNamed(fname).grid
    /\ OnDisk(fname) = FileNamed(fname)

\* The run has ended.
Ended == pc \in {"done", "fatal", "crashed"}

\* C18: a run started after another on the same log, folder and tolerance
\* ends as that one did: the same way of ending, the same outcome for every
\* capture file, the same printed lines, the same saved files with the same
\* content; and in it no file written by the earlier run and no ~$ file is
\* ever taken past the scan.
C18_Idempotent ==
    run >= 2 =>
        /\ Ended =>
              /\ pc = previous.pc
              /\ \A f \in FileNames : status[f] = previous.status[f]
              /\ diagnostics = previous.diagnostics
              /\ outputs = previous.outputs
        /\ \A n \in DOMAIN status :
              (IsTempFile(n) \/ \E o \in previous.outputs : o.name = n) =>
                  /\ status[n] \in {"Discovered", "NotInput"}
                  /\ fname # n

\* C18 witness: the second run over a folder that now holds the output of
\* the first and a ~$ file has ended; it passed over both and saved the same
\* annotated sheet again.
C18_Witness ==
    /\ run = 2 /\ pc = "done"
    /\ OUTPUT_FOLDER = "QTM_FOLDER"
    /\ \E n \in DOMAIN status :
          /\ n \notin FileNames
          /\ \E o \in previous.outputs : o.name = n
          /\ status[n] = "NotInput"
    /\ \E n \in FileNames : IsTempFile(n) /\ status[n] = "NotInput"
    /\ \E f \in FileNames :
          /\ status[f] = "Saved" /\ previous.status[f] = "Saved"
          /\ \E o \in outputs : o.name = OutName(f) /\ o \in previous.outputs

\* Where column c of the export stands in the annotated sheet.
ShiftedColumn(c) == IF c <= 2 THEN c + 1 ELSE c + 2

\* C19: in the sheet saved for a file, the header row has Event in column 1
\* and Global Time Synced in column 4; the sheet has the rows of the export
\* and two columns more; every cell of the export stands unchanged one
\* column to the right (columns 1 and 2) or two (columns from 3); below and
\* above the header, a cell of column 1 is filled only on a row some event
\* was matched to, a cell of column 4 only on a row of the frame index.
C19_LayoutPreserved ==
    (fname # <<>> /\ status[fname] = "Saved") =>
        LET grid == FileNamed(fname).grid
            out  == (CHOOSE o \in outputs : o.name = OutName(fname)).ws
        IN  /\ \E o \in outputs : o.name = OutName(fname)
            /\ CellValue(out, header_row, 1) = Txt(<<"E","v","e","n","t">>)
            /\ CellValue(out, header_row, 4) = Txt(<<"G","l","o","b","a","l"," ","T","i","m","e"," ","S","y","n","c","e","d">>)
            /\ max_row(out) = max_row(grid)
            /\ max_column(out) = max_column(grid) + 2
            /\ \A q \in 1..max_row(grid) : \A c \in 1..max_column(grid) :
                  CellValue(out, q, ShiftedColumn(c)) = CellValue(grid, q, c)
            /\ \A q \in (1..max_row(out)) \ {header_row} :
                  /\ CellValue(out, q, 1) # Empty =>
                        \E k \in 1..Len(matches) : matches[k].row = q
                  /\ CellValue(out, q, 4) # Empty =>
                        \E i \in 1..Len(row_to_global) : row_to_global[i].row = q

\* C19 witness: a saved sheet of an export with a title row above its
\* header, with a label in column 1 and a time in column 4 of a frame row
\* whose exported cells stand in columns 2, 3 and 5.
C19_Witness ==
    /\ fname # <<>> /\ status[fname] = "Saved"
    /\ header_row = 2
    /\ \E o \in outputs :
          /\ o.name = OutName(fname)
          /\ \E q \in 1..max_row(o.ws) :
                /\ q # header_row
                /\ CellValue(o.ws, q, 1).k = "str"
                /\ CellValue(o.ws, q, 4).k = "str"
                /\ CellValue(o.ws, q, 2) = CellValue(FileNamed(fname).grid, q, 1)
                /\ CellValue(o.ws, q, 3) = CellValue(FileNamed(fname).grid, q, 2)
                /\ CellValue(o.ws, q, 5) = CellValue(FileNamed(fname).grid, q, 3)
                /\ CellValue(o.ws, q, 5) # Empty

\* How many times the command was written to the serial port.
TimesSent(command) == Cardinality({i \in 1..Len(arduino) : arduino[i] = command})

\* C20: over any clicks of Start Trial, LED_<b>_ON is written at most once
\* for each button b, and a button that was chosen (it stands in a Beep
\* Command Sent entry) is not in the pool.
C20_EachButtonLitOnce ==
    /\ \A b \in 1..MaxButtons : TimesSent(LedOnCommand(b)) <= 1
    /\ \A i \in 1..Len(event_log) :
          event_log[i].event = <<"B","e","e","p"," ","C","o","m","m","a","n","d"," ","S","e","n","t">> =>
              \A k \in 1..Len(button_pool) : Some(button_pool[k]) # event_log[i].button

\* The frame-time column of the export: the first column of its header row
\* whose text contains "time".
FrameTimeColumn(grid) ==
    find_col_by_keyword(grid, find_header_row(grid), <<"t","i","m","e">>)

\* C21: for a file whose export has a frame-time column, the column located
\* after the two insertions and the two labels is that column at its shifted
\* place, and is not the inserted Global Time Synced column.
C21_TimeColumnIsFrameTime ==
    ( /\ fname # <<>>
      /\ status[fname] \in {"LayoutDetected", "Anchored", "FrameIndexed", "Saved",
                            "SkipNoAnchor", "SkipBadAnchor", "SkipNoTimeRows"}
      /\ FrameTimeColumn(FileNamed(fname).grid).ok ) =>
        /\ time_col = Some(ShiftedColumn(FrameTimeColumn(FileNamed(fname).grid).v))
        /\ time_col.v # GLOBAL_TIME_COL

\* The gates of file f, read off the inputs in the order the code takes
\* them: the name parses, the selection of its trial is not empty, the
\* annotated sheet has a time column, the selection holds a start command
\* whose timestamp parses, and some data row gives a frame time.
GatesPassed(f) ==
    /\ AcceptedByScan(f) /\ parse_qtm_filename(f).ok
    /\ Selected(f) # <<>>
    /\ FileNamed(f).readable
    /\ LET hr    == find_header_row(FileNamed(f).grid)
           sheet == AnnotatedSheet(FileNamed(f).grid, hr)
           tc    == find_col_by_keyword(sheet, hr, <<"t","i","m","e">>)
       IN  /\ tc.ok
           /\ ~AnchorlessIn(Selected(f))
           /\ \E q \in (hr + DATA_ROW_OFFSET)..max_row(sheet) :
                 parse_seconds_from_qtm_time(CellValue(sheet, q, tc.v)).k = "num"

SkipStates == {"SkipName", "SkipNoEvents", "SkipNoTimeColumn", "SkipNoAnchor",
               "SkipBadAnchor", "SkipNoTimeRows"}

\* The stages a file may go to from stage s.
StagesAfter(s) ==
    CASE s = "Discovered"     -> {"NotInput", "SkipName", "SkipNoEvents", "Filtered"}
      [] s = "Filtered"       -> {"SkipNoTimeColumn", "LayoutDetected", "Failed"}
      [] s = "LayoutDetected" -> {"SkipNoAnchor", "SkipBadAnchor", "Anchored"}
      [] s = "Anchored"       -> {"SkipNoTimeRows", "FrameIndexed", "Failed"}
      [] s = "FrameIndexed"   -> {"Saved"}
      [] OTHER                -> {}

\* C22: a file has an output only if it is Saved and passed every gate; a
\* file in a SKIP state has none; a file whose indexing loop ended with an
\* empty frame index is skipped, never matched or saved; each step takes a
\* file only to a stage that follows its own (the gates in order, a SKIP state
\* and Saved left by no step), and an output appears only in the step from
\* FrameIndexed to Saved.
C22_OutputOnlyAfterAllGates ==
    /\ [](\A f \in FileNames :
            /\ HasOutput(f) => status[f] = "Saved" /\ GatesPassed(f)
            /\ status[f] \in SkipStates => ~HasOutput(f)
            /\ (f = fname /\ status[f] \in {"FrameIndexed", "Saved"}) => row_to_global # <<>>
            /\ (f = fname /\ status[f] = "SkipNoTimeRows") => row_to_global = <<>>)
    /\ [][\A f \in FileNames :
            /\ status'[f] # status[f] => status'[f] \in StagesAfter(status[f])
            /\ (HasOutput(f)' /\ ~HasOutput(f)) =>
                  status[f] = "FrameIndexed" /\ status'[f] = "Saved"]_vars

\* C22 witness: main() has returned; one file passed every gate and has its
\* output, another ended with an empty frame index, skipped, without one.
C22_Witness ==
    /\ pc = "done"
    /\ \E f, g \in FileNames :
          /\ status[f] = "Saved" /\ HasOutput(f) /\ GatesPassed(f)
          /\ status[g] = "SkipNoTimeRows" /\ ~HasOutput(g)
          /\ Len(DiagsOf(g)) = 1 /\ DiagsOf(g)[1].kind = "no_time_rows"

TerminalStates == SkipStates \cup {"Saved"}

\* The files of the folder are taken one at a time in sorted order: a file
\* has left Discovered only when every input file that sorts before it is in
\* a terminal state.
OneAtATimeInOrder ==
    \A f, g \in FileNames :
        ( /\ AcceptedByScan(f) /\ AcceptedByScan(g) /\ TextLess(f, g)
          /\ status[g] # "Discovered" ) => status[f] \in TerminalStates

\* The run is over.
RunOver == pc \in {"done", "fatal", "crashed"}

\* A bound on the steps process_single_qtm has still to take for fname: the
\* rows the indexing loop has to pass, the events the matching loop has to
\* pass, and the steps between the loops.
StepsLeftInFile ==
    CASE pc = "open"   -> (IF OnDisk(fname).readable THEN Len(OnDisk(fname).grid) ELSE 0)
                          + FALLBACK_HEADER_ROW + Len(trial_events) + 5
      [] pc = "anchor" -> max_row(ws) + Len(trial_events) + 4
      [] pc = "index"  -> (IF r <= max_row(ws) THEN max_row(ws) + 1 - r ELSE 0)
                          + Len(trial_events) + 3
      [] pc = "match"  -> Len(ev_list) + 2 - ev_i
      [] OTHER         -> 0

\* A bound on the steps of one pass of the for loop of main(), whatever the
\* file.
StepsPerFile ==
    LET rows == {Len(f.grid) : f \in QTM_FOLDER.files}
        most == IF rows = {} THEN 0 ELSE CHOOSE n \in rows : \A m \in rows : m <= n
    IN  most + FALLBACK_HEADER_ROW + Len(LOG_FILE.rows) + 7

\* A bound on the steps the run has still to take.
StepsLeft ==
    CASE pc = "start" -> Cardinality(QTM_FOLDER.files) * StepsPerFile + 3
      [] pc = "list"  -> Cardinality(QTM_FOLDER.files) * StepsPerFile + 2
      [] RunOver      -> 0
      [] OTHER        -> Len(queue) * StepsPerFile + StepsLeftInFile + 1

\* C23: a run ends (every step lowers a bound on the steps left, which is
\* never negative, and only a run that is over has none left); at its end
\* every file the scan accepts is in a terminal state, Saved or a SKIP state;
\* and the files are handled one at a time in sorted order.
C23_BatchTerminatesInOrder ==
    /\ [][StepsLeft' < StepsLeft]_vars
    /\ [](StepsLeft >= 0 /\ (StepsLeft = 0 => RunOver))
    /\ [](RunOver => \A f \in FileNames : AcceptedByScan(f) => status[f] \in TerminalStates)
    /\ []OneAtATimeInOrder

\* C24: every row of the frame index, every row an event was matched to,
\* every row with a filled Global Time Synced cell and every row with a
\* filled Event cell, the header row with its two labels apart, is at least
\* three rows below the header row; the rows above that, and so the header
\* row and the two rows under it, hold no reconstructed time and no event
\* label; and the third row below the header is a data row: once the loop
\* has passed it, it is indexed if its frame-time cell gives an offset.
C24_DataRowsStartThreeBelowHeader ==
    (fname # <<>> /\ Indexing) =>
        /\ \A i \in 1..Len(row_to_global) : row_to_global[i].row >= header_row + 3
        /\ \A k \in 1..Len(matches) : matches[k].row >= header_row + 3
        /\ \A q \in 1..max_row(ws) :
              (q < header_row + 3 /\ q # header_row) =>
                  /\ CellValue(ws, q, GLOBAL_TIME_COL) = Empty
                  /\ CellValue(ws, q, EVENT_COL) = Empty
        /\ CellValue(ws, header_row, GLOBAL_TIME_COL) = Txt(<<"G","l","o","b","a","l"," ","T","i","m","e"," ","S","y","n","c","e","d">>)
        /\ CellValue(ws, header_row, EVENT_COL) = Txt(<<"E","v","e","n","t">>)
        /\ ( /\ header_row + 3 <= max_row(ws) /\ header_row + 3 < r
             /\ SecsOf(header_row + 3).k = "num" ) =>
                /\ row_to_global # <<>>
                /\ row_to_global[1].row = header_row + 3

\* C24 witness: a saved file whose two rows under the header hold values
\* that read as seconds in the time column, neither of them indexed, and an
\* event at the start time matched to the third row below the header.
C24_Witness ==
    /\ fname # <<>> /\ status[fname] = "Saved"
    /\ SecsOf(header_row + 1).k = "num"
    /\ SecsOf(header_row + 2).k = "num"
    /\ row_to_global[1].row = header_row + 3
    /\ \E k \in 1..Len(matches) : matches[k].row = header_row + 3 /\ matches[k].diff = 0
    /\ CellValue(ws, header_row + 1, GLOBAL_TIME_COL) = Empty
    /\ CellValue(ws, header_row + 3, GLOBAL_TIME_COL) # Empty

\* The qualifying events of fname whose timestamp safe_to_datetime reads,
\* and those it does not, in the order of the log.
ParsableEvents ==
    SelectSeq(events_of_interest, LAMBDA row : safe_to_datetime(row.timestamp).ok)
UnparsableEvents ==
    SelectSeq(events_of_interest, LAMBDA row : ~safe_to_datetime(row.timestamp).ok)

\* C25: once the events of a file are listed, each qualifying event whose
\* timestamp does not parse has its printed line and is not among the events
\* to match, so that its label goes to no frame; the events to match are
\* the other qualifying events, each with its instant, and in the saved file
\* all of them are matched; and a file that passes every gate is saved when
\* main() returns, whatever the timestamps of its events.
C25_UnparsableEventDropped ==
    /\ (fname # <<>> /\ Matching) =>
          LET lines == SelectSeq(DiagsOf(fname), LAMBDA d : d.kind = "event_unparsable")
          IN  /\ Len(lines) = Len(UnparsableEvents)
              /\ \A i \in 1..Len(lines) : lines[i].ev = UnparsableEvents[i].event
              /\ Len(ev_list) = Len(ParsableEvents)
              /\ \A k \in 1..Len(ev_list) :
                    /\ k <= Len(ParsableEvents)
                    /\ ev_list[k].name = ParsableEvents[k].event
                    /\ ev_list[k].t = safe_to_datetime(ParsableEvents[k].timestamp).v
              /\ \A k \in 1..Len(matches) :
                    k <= Len(ParsableEvents) /\ matches[k].name = ParsableEvents[k].event
              /\ status[fname] = "Saved" => Len(matches) = Len(ParsableEvents)
    /\ pc = "done" => \A f \in FileNames : GatesPassed(f) => status[f] = "Saved"

\* The distance from zero of the offset of the indexed frame nearest to the
\* start time.
LeastOffset ==
    CHOOSE d \in {Dist(row_to_global[i].t, start_time) : i \in 1..Len(row_to_global)} :
        \A i \in 1..Len(row_to_global) : d <= Dist(row_to_global[i].t, start_time)

\* C26: in every saved file the row that gave the start time, the first
\* start command of the trial, is among the matched events: under its label
\* and at the start time it went to an indexed frame whose offset no frame
\* has nearer to zero, the label stands in the Event cell of that frame, and
\* when a frame has offset zero the difference is 0 and no drift line
\* reports that match.
C26_AnchorIsMatched ==
    (fname # <<>> /\ status[fname] = "Saved") =>
        \E k \in 1..Len(matches) :
            /\ matches[k].name = StartRows[1].event
            /\ matches[k].t = start_time
            /\ matches[k].diff = LeastOffset
            /\ \E i \in 1..Len(row_to_global) :
                  /\ row_to_global[i].row = matches[k].row
                  /\ Dist(row_to_global[i].t, start_time) = LeastOffset
            /\ Contains(CellStr(CellValue(ws, matches[k].row, EVENT_COL)), StartRows[1].event)
            /\ LeastOffset = 0 =>
                  \A j \in 1..Len(diagnostics) :
                      ~( /\ diagnostics[j].kind = "drift"
                         /\ diagnostics[j].ev = StartRows[1].event
                         /\ diagnostics[j].row = matches[k].row
                         /\ diagnostics[j].diff = matches[k].diff )

\* The inputs main() cannot start on: a log that cannot be read or has no
\* column for one of the five keys, or a capture folder that does not exist.
FatalInput ==
    \/ ~LOG_FILE.readable
    \/ ~get_log_column_mapping(LOG_FILE.columns).ok
    \/ ~QTM_FOLDER.exists

\* C27: on such inputs the run gets no further than reading the log and
\* listing the folder; it stops in the fatal state, and only on such inputs;
\* and until then and there no capture file has left Discovered, no file was
\* opened, nothing was printed about a file and no output was written.
C27_FatalBeforeAnyFile ==
    /\ pc = "fatal" => FatalInput
    /\ FatalInput =>
          /\ pc \in {"start", "list", "fatal"}
          /\ outputs = {}
          /\ fname = <<>> /\ ws = <<>> /\ queue = <<>>
          /\ diagnostics = <<>>
          /\ \A f \in FileNames : status[f] = "Discovered"

\* C27 witness: the run has stopped on a log without a subject column, with
\* a capture file in the folder that was not touched.
C27_Witness ==
    /\ pc = "fatal"
    /\ LOG_FILE.readable /\ LOG_FILE.rows # <<>>
    /\ ~get_log_column_mapping(LOG_FILE.columns).ok
    /\ QTM_FOLDER.exists
    /\ \E f \in FileNames : AcceptedByScan(f) /\ status[f] = "Discovered"
    /\ outputs = {}

\* C28: no start_recording_and_trial coroutine that passed the check of the
\* pool ends in the IndexError of random.choice on an empty pool, and a
\* coroutine that is past the selection has a button to light.
C28_SelectionNeverOnEmptyPool ==
    \A i \in 1..Len(coroutines) :
        /\ coroutines[i].pc # "raised"
        /\ coroutines[i].pc = "sleep1" => current_button.ok

\* C29: in src/taskandtrial.py a trial whose call of start_qtm_recording
\* failed, at connect, take_control or start, on the first trial or a later
\* one, has 'QTM Start Command Sent' in the log and none of the entries that
\* follow it in start_recording_and_trial: no 'QTM Recording Started', no
\* 'Beep Started', no LED entry.
AfterStartEvents ==
    {Txt(RecordingStarted), Txt(BeepStarted)} \cup {Txt(LedLitText(b)) : b \in 1..MaxTaskButtons}
TrialLogs(n, events) ==
    \E k \in 1..Len(event_log) : event_log[k][1] = Whole(n) /\ event_log[k][5] \in events
C29_RecordingStartedOnlyIfStarted ==
    \A i \in 1..Len(coroutines) :
        coroutines[i].qtm \in QtmOutcomes \ {"recording"} =>
            /\ TrialLogs(coroutines[i].trial, {Txt(StartCommand)})
            /\ ~TrialLogs(coroutines[i].trial, AfterStartEvents)

\* C30: in the sheet that export_to_excel of src/taskandtrial.py writes,
\* whatever the shape of the entry a row comes from, the 'Hand Used' cell
\* (column H) is filled only in the row of a 'Hand Used' event and never
\* holds the subject id, and the subject id stands in 'Subject ID' (column
\* I) and in no other column.
C30_HandAndSubjectInTheirColumns ==
    \A k \in 2..Len(ws) :
        /\ ws[k][8] # Empty => ws[k][6] = Txt(HandUsed)
        /\ ws[k][9] = subject_id
        /\ \A c \in {4, 5, 6, 7, 8} : ws[k][c] # subject_id
====
